---- MODULE Spec2Model ----
(***************************************************************************)
(* Model of the Redis-backed real-time layer of the platform:              *)
(*   - the fixed-window rate limiter  (services/redis/metrics_service.py)  *)
(*   - the activity streams           (services/redis/activity_service.py) *)
(*   - the entity alert queue         (services/redis_service.py)          *)
(* The Redis server is modelled by the values of its keys; one Redis       *)
(* command is atomic.  Every component has its own specification, the      *)
(* variables of the other components stay at their initial values.         *)
(***************************************************************************)
EXTENDS Integers, Sequences, FiniteSets, TLC

VARIABLES
    rlCount,    \* rate limiter: integer stored under the counter key (0 when the key is absent)
    rlTtl,      \* rate limiter: what TTL answers for the key: -2 absent, -1 no expiry, else seconds left
    rlLast,     \* rate limiter: the last check_rate_limit call (inputs, result, store before it)
    rlWin,      \* rate limiter: history of the current window (calls since the key was absent)
    streams,    \* activity: the Redis list stored under each activity stream key, head first
    nextId,     \* activity: number of activity ids generated so far, plus one
    actLast,    \* activity: the last ActivityService call (inputs, result, lists before it)
    actHist,    \* activity: history: LPUSHes done per key, whether no add has failed,
                \* and per key the records pushed by add_activity, newest first
    procs,      \* activity: the concurrent callers: where each is in its call, and its locals
    alerts,     \* alerts: the sorted set of one entity: entries [member, score]
    now,        \* alerts: the clock (time.time()), in seconds since the model starts
    alSeq,      \* alerts: number of alerts created so far
    alLast,     \* alerts: the last AlertService call (inputs, result)
    metrics,    \* entity metrics: the hash of one entity: field -> stored text
    mTtl,       \* entity metrics: what TTL answers for the hash key
    mClock,     \* entity metrics: the clock (datetime.utcnow()), in seconds
    mLast,      \* entity metrics: the last complete call on the hash, if no command ran since
    mProcs,     \* entity metrics: the concurrent increment callers and their locals
    mSum,       \* entity metrics: history: sum of the deltas of the increments done, per field
    trending,   \* trending: the sorted set stored under each trending key
    tTtl,       \* trending: what TTL answers for each trending key
    tLast,      \* trending: the last trending call (inputs, result, whether it changed a set)
    tHist,      \* trending: history: per key the sum of the deltas bumped per member
                \* since the key was last absent, and the number of bump calls made
    velLast,    \* velocity: the last calculate_topic_velocity call (ZSCORE replies, result)
    boards,     \* leaderboard: the sorted set stored under one leaderboard key
    bTtl,       \* leaderboard: what TTL answers for the leaderboard key
    lbLast,     \* leaderboard: the last leaderboard call (inputs, result)
    lbHist,     \* leaderboard: history: per entry the scores written since the key was absent
    cache,      \* cache primitives: the string, hash and list keys used, their TTLs, and
                \* as history the values handed to the writes that made them
    cacheLast,  \* cache primitives: the last CacheService call (inputs, result)
    rlProcs,    \* rate limiter: the concurrent callers of check_rate_limit and their locals
    ackProcs    \* alerts: the concurrent callers of acknowledge_alert and their locals

rlVars == <<rlCount, rlTtl, rlLast, rlWin>>

actVars == <<streams, nextId, actLast, actHist, procs>>

alertVars == <<alerts, now, alSeq, alLast>>

metricVars == <<metrics, mTtl, mClock, mLast, mProcs, mSum>>

trendVars == <<trending, tTtl, tLast, tHist>>

velVars == <<velLast>>

boardVars == <<boards, bTtl, lbLast, lbHist>>

cacheVars == <<cache, cacheLast>>

auxVars == <<velLast, boards, bTtl, lbLast, lbHist, cache, cacheLast, rlProcs, ackProcs>>

vars == <<rlCount, rlTtl, rlLast, rlWin, streams, nextId, actLast, actHist, procs,
          alerts, now, alSeq, alLast, metrics, mTtl, mClock, mLast, mProcs, mSum,
          trending, tTtl, tLast, tHist,
          velLast, boards, bTtl, lbLast, lbHist, cache, cacheLast, rlProcs, ackProcs>>

(***************************************************************************)
(* Bounds of the model                                                     *)
(***************************************************************************)
MaxLimit == 3       \* check_rate_limit is called with limit in 1..MaxLimit
MaxWindow == 2      \* ... and window_seconds in 1..MaxWindow
MaxCalls == 4       \* at most this many checks are recorded per window

MAX_STREAM_LENGTH == 5  \* StreamConfig.MAX_STREAM_LENGTH (1000 in the source), scaled down;
                        \* the smallest value whose soft bound floor(1.2 x MAX) exceeds MAX
MaxIds == 8         \* single-stream specification: activity ids generated
MaxFanIds == 4      \* fan-out specification: activity ids generated
MaxRangeIds == 4    \* range specification: activity ids generated
MaxStart == 3       \* range is called with start in 0..MaxStart
MaxPage == 3        \* ... and limit in 0..MaxPage
MaxConcIds == 7     \* concurrent specification: activity ids generated
MaxAlerts == 2      \* alert specification: alerts created
MaxHours == 2       \* alert specification: the clock runs for one day and MaxHours hours
MaxIncrCalls == 3   \* concurrent metrics specification: increment calls made
MaxMetricTicks == 2 \* metrics specification: the clock runs for MaxMetricTicks hours
MaxBumps == 2       \* trending specifications: bump calls made
MaxTrendTicks == 1  \* trending specifications: the clock runs for MaxTrendTicks hours

Limits == 1..MaxLimit
Windows == 1..MaxWindow

(***************************************************************************)
(* Rate limiter                                                            *)
(***************************************************************************)
\* The Redis commands check_rate_limit issues; a call's input F is the set of
\* those that raise if they are issued during the call.
RLCommands == {"get", "ttl", "incrby", "expire"}

KEY_ABSENT == 0 - 2     \* TTL's answer for a key that does not exist
KEY_NO_EXPIRY == 0 - 1  \* TTL's answer for a key without expiry

\* get_counter: GET, int(value), 0 if the key is absent; any error is
\* swallowed and 0 returned.
get_counter(F) ==
    IF "get" \in F THEN 0
    ELSE IF rlTtl = KEY_ABSENT THEN 0 ELSE rlCount

\* The store after increment_counter(key, 1, ttl): INCRBY creates the key
\* (without expiry) when absent; EXPIRE follows only if INCRBY did not raise.
IncrStoreKeepTtl(F, ttl) ==
    IF "incrby" \in F THEN [count |-> rlCount, ttl |-> rlTtl]
    ELSE [count |-> rlCount + 1,
          ttl   |-> IF rlTtl = KEY_ABSENT
                    THEN (IF "expire" \in F THEN KEY_NO_EXPIRY ELSE ttl)
                    ELSE rlTtl]

IncrStore(F, ttl) ==
    IF "incrby" \in F THEN [count |-> rlCount, ttl |-> rlTtl]
    ELSE [count |-> rlCount + 1,
          ttl   |-> IF "expire" \in F
                    THEN (IF rlTtl = KEY_ABSENT THEN KEY_NO_EXPIRY ELSE rlTtl)
                    ELSE ttl]

\* increment_counter's return value: the new value, 0 if INCRBY or EXPIRE raised.
increment_counter(F) ==
    IF "incrby" \in F \/ "expire" \in F THEN 0 ELSE rlCount + 1

\* The except branch of check_rate_limit.
FailClosed(window) == [allowed |-> FALSE, count |-> 0, reset |-> window]

FailOpen(window) == [allowed |-> TRUE, count |-> 0, reset |-> window]

\* The limit test of check_rate_limit.
LimitExceededOffByOne(count, limit) == count > limit

LimitExceeded(count, limit) == count >= limit

\* The try block of check_rate_limit(key, limit, window) under the failing
\* commands F: whether an exception leaves the block (redis.ttl is called
\* unguarded), the tuple returned otherwise, and the store it leaves.
check_body_counts_first(limit, window, F) ==
    LET s == IncrStore(F, window)
        count == increment_counter(F)
    IN  [raised |-> FALSE,
         ret |-> [allowed |-> ~(count > limit), count |-> count, reset |-> window],
         count |-> s.count, ttl |-> s.ttl]

check_body(limit, window, F) ==
    LET count0 == get_counter(F) IN
    IF "ttl" \in F
    THEN [raised |-> TRUE, ret |-> <<>>, count |-> rlCount, ttl |-> rlTtl]
    ELSE LET expired == rlTtl < 0
             count == IF expired THEN 0 ELSE count0
             ttl == IF expired THEN window ELSE rlTtl
         IN  IF LimitExceeded(count, limit)
             THEN [raised |-> FALSE,
                   ret |-> [allowed |-> FALSE, count |-> count, reset |-> ttl],
                   count |-> rlCount, ttl |-> rlTtl]
             ELSE LET s == IncrStore(F, window) IN
                  [raised |-> FALSE,
                   ret |-> [allowed |-> TRUE, count |-> increment_counter(F), reset |-> ttl],
                   count |-> s.count, ttl |-> s.ttl]

\* check_rate_limit: the try block, with "except Exception" returning the
\* fail-open tuple.
check_rate_limit(limit, window, F) ==
    LET b == check_body(limit, window, F) IN
    IF b.raised
    THEN [raised |-> FALSE, ret |-> FailOpen(window), count |-> b.count, ttl |-> b.ttl]
    ELSE b

NoCall == [op |-> "none"]

NoWindow == [calls |-> 0, limit |-> 0, window |-> 0, clean |-> TRUE, age |-> 0,
             idle |-> 0 - 1, span |-> 0, denied |-> FALSE]

\* One call of check_rate_limit.  rlWin records the calls made since the key
\* was last absent: how many, whether all used the same limit and window
\* (0 once they differ) and whether no command has failed.  It also records,
\* beyond the life of the key, the last allowed check: the seconds since it
\* (idle, -1 if there is none or one of its commands failed), its window
\* (span) and whether a check was denied since.
Check(limit, window, F) ==
    /\ rlWin.calls < MaxCalls
    /\ LET r == check_rate_limit(limit, window, F)
           issued == {"get", "ttl"} \cup
                     (IF "ttl" \notin F /\ r.ret.allowed
                      THEN {"incrby"} \cup (IF "incrby" \in F THEN {} ELSE {"expire"})
                      ELSE {})
       IN  /\ rlCount' = r.count
           /\ rlTtl' = r.ttl
           /\ rlLast' = [op |-> "check", limit |-> limit, window |-> window,
                         failed |-> F \cap issued, raised |-> r.raised,
                         allowed |-> r.ret.allowed, count |-> r.ret.count,
                         reset |-> r.ret.reset,
                         preCount |-> rlCount, preTtl |-> rlTtl]
           /\ rlWin' = [calls  |-> rlWin.calls + 1,
                        limit  |-> IF rlWin.calls = 0 \/ rlWin.limit = limit
                                   THEN limit ELSE 0,
                        window |-> IF rlWin.calls = 0 \/ rlWin.window = window
                                   THEN window ELSE 0,
                        clean  |-> rlWin.clean /\ (F \cap issued = {}),
                        age    |-> rlWin.age,
                        idle   |-> IF ~r.ret.allowed THEN rlWin.idle
                                   ELSE IF F \cap issued = {} THEN 0 ELSE 0 - 1,
                        span   |-> IF r.ret.allowed THEN window ELSE rlWin.span,
                        denied |-> ~r.ret.allowed]
    /\ UNCHANGED <<auxVars, actVars, alertVars, metricVars, trendVars>>

\* One second passes; a key whose time to live runs out is deleted by Redis.
RLTick ==
    /\ rlTtl > 0
    /\ rlLast' = NoCall
    /\ IF rlTtl = 1
       THEN /\ rlCount' = 0
            /\ rlTtl' = KEY_ABSENT
            /\ rlWin' = [NoWindow EXCEPT
                            !.idle = IF rlWin.idle < 0 THEN @ ELSE rlWin.idle + 1,
                            !.span = rlWin.span,
                            !.denied = rlWin.denied]
       ELSE /\ rlCount' = rlCount
            /\ rlTtl' = rlTtl - 1
            /\ rlWin' = [rlWin EXCEPT !.age = @ + 1,
                                      !.idle = IF @ < 0 THEN @ ELSE @ + 1]
    /\ UNCHANGED <<auxVars, actVars, alertVars, metricVars, trendVars>>

RLNext ==
    \/ \E limit \in Limits, window \in Windows, F \in SUBSET RLCommands :
           Check(limit, window, F)
    \/ RLTick

(***************************************************************************)
(* Activity streams                                                        *)
(***************************************************************************)
Entities == {"e1", "e2"}
Users == {"u1", "u2"}
ActivityTypes == {"post", "comment"}

\* KeyPatterns.ACTIVITY_ENTITY / ACTIVITY_USER / ACTIVITY_GLOBAL.
ACTIVITY_ENTITY(entity_id) == <<"entity", entity_id>>
ACTIVITY_USER(user_id) == <<"user", user_id>>
ACTIVITY_GLOBAL == <<"global", "">>

StreamKeys ==
    {ACTIVITY_ENTITY(e) : e \in Entities} \cup {ACTIVITY_USER(u) : u \in Users}
        \cup {ACTIVITY_GLOBAL}

TRIM_THRESHOLD_NUM == 12    \* StreamConfig.TRIM_THRESHOLD = 1.2 = 12/10
TRIM_THRESHOLD_DEN == 10
EMPTY_ID == 0               \* the "" that _add_to_list returns on an error

\* length > MAX_STREAM_LENGTH * TRIM_THRESHOLD
OverThresholdDoubled(length) ==
    length * TRIM_THRESHOLD_DEN > 2 * MAX_STREAM_LENGTH * TRIM_THRESHOLD_NUM

OverThreshold(length) ==
    length * TRIM_THRESHOLD_DEN > MAX_STREAM_LENGTH * TRIM_THRESHOLD_NUM

\* floor(MAX_STREAM_LENGTH * TRIM_THRESHOLD): the longest list that is not trimmed.
SoftBound == (MAX_STREAM_LENGTH * TRIM_THRESHOLD_NUM) \div TRIM_THRESHOLD_DEN

Min(a, b) == IF a < b THEN a ELSE b
Max(a, b) == IF a > b THEN a ELSE b

\* Redis list commands on the value of one key.  Indices are 0-based, a
\* negative index counts from the tail (-1 is the last element), and a range
\* is clipped to the list.
LPushTail(list, x) == Append(list, x)

LPush(list, x) == <<x>> \o list

LLen(list) == Len(list)

LRange(list, start, stop) ==
    LET n == Len(list)
        s == IF start < 0 THEN Max(n + start, 0) ELSE start
        e == Min(IF stop < 0 THEN n + stop ELSE stop, n - 1)
    IN  IF s > e THEN <<>> ELSE SubSeq(list, s + 1, e + 1)

LTrim(list, start, stop) == LRange(list, start, stop)

\* LINDEX: the element in a one-element sequence, <<>> for nil.
LIndex(list, i) ==
    LET n == Len(list)
        k == IF i < 0 THEN n + i ELSE i
    IN  IF k < 0 \/ k >= n THEN <<>> ELSE <<list[k + 1]>>

\* LREM key 1 value: removes the first element equal to value.
LRem1(list, v) ==
    IF \E i \in 1..Len(list) : list[i] = v
    THEN LET i == CHOOSE i \in 1..Len(list) :
                    list[i] = v /\ \A j \in 1..(i - 1) : list[j] # v
         IN  SubSeq(list, 1, i - 1) \o SubSeq(list, i + 1, Len(list))
    ELSE list

\* The commands of _add_to_list; a call's input is the one that raises, if any.
AddFaults == {"none", "lpush", "llen", "ltrim"}

\* The last index kept by the trim of _add_to_list.
TrimStopOffByOne == MAX_STREAM_LENGTH

TrimStop == MAX_STREAM_LENGTH - 1

\* _add_to_list(key, activity) on the list of key: the id returned and the
\* list left.  id is the generated activity id (millisecond time plus a hash
\* of the activity, which holds a microsecond timestamp: fresh for every
\* push); the list element is the activity with its id, as json.dumps and
\* json.loads of such a dictionary give back the same dictionary.
\* Any exception returns "" from wherever it happens.
add_to_list(list, id, type, fault) ==
    IF fault = "lpush" THEN [id |-> EMPTY_ID, list |-> list]
    ELSE LET pushed == LPush(list, [id |-> id, type |-> type]) IN
         IF fault = "llen" THEN [id |-> EMPTY_ID, list |-> pushed]
         ELSE IF OverThreshold(LLen(pushed))
              THEN IF fault = "ltrim" THEN [id |-> EMPTY_ID, list |-> pushed]
                   ELSE [id |-> id, list |-> LTrim(pushed, 0, TrimStop)]
              ELSE [id |-> id, list |-> pushed]

RequestedScopesAlwaysGlobal(entity_id, user_id, add_to_global) ==
    (IF entity_id # "" THEN <<"entity">> ELSE <<>>)
        \o (IF user_id # "" THEN <<"user">> ELSE <<>>)
        \o <<"global">>

\* The scopes add_activity pushes to, in the order it pushes: entity_id and
\* user_id are "" when not given (None and "" are both falsy).
RequestedScopes(entity_id, user_id, add_to_global) ==
    (IF entity_id # "" THEN <<"entity">> ELSE <<>>)
        \o (IF user_id # "" THEN <<"user">> ELSE <<>>)
        \o (IF add_to_global THEN <<"global">> ELSE <<>>)

ScopeKey(scope, entity_id, user_id) ==
    IF scope = "entity" THEN ACTIVITY_ENTITY(entity_id)
    ELSE IF scope = "user" THEN ACTIVITY_USER(user_id)
    ELSE ACTIVITY_GLOBAL

\* add_activity: result_ids (scope -> id returned by _add_to_list) and the
\* lists left.  The i-th requested scope gets the id number nextId + i - 1.
add_activity(entity_id, user_id, type, add_to_global, faults) ==
    LET scopes == RequestedScopes(entity_id, user_id, add_to_global)
        pos(sc) == CHOOSE i \in 1..Len(scopes) : scopes[i] = sc
        kinds == {scopes[i] : i \in 1..Len(scopes)}
        one(sc) == add_to_list(streams[ScopeKey(sc, entity_id, user_id)],
                               nextId + pos(sc) - 1, type, faults[sc])
    IN  [result_ids |-> [sc \in kinds |-> one(sc).id],
         streams |-> [k \in StreamKeys |->
                        IF \E sc \in kinds : ScopeKey(sc, entity_id, user_id) = k
                        THEN one(CHOOSE sc \in kinds :
                                    ScopeKey(sc, entity_id, user_id) = k).list
                        ELSE streams[k]]]

\* The filter test of _get_activities: an activity is dropped when a type is
\* asked for ("" for none) and it has another type.
KeepsType(activity, activity_type) ==
    activity_type = "" \/ activity.type = activity_type

FilterType(items, activity_type) ==
    SelectSeq(items, LAMBDA a : KeepsType(a, activity_type))

\* _get_activities(key, start, limit, activity_type)
get_activities(list, start, limit, activity_type) ==
    FilterType(LRange(list, start, start + limit - 1), activity_type)

\* The number of elements get_activity_by_id and _delete_from_list read:
\* the literal 1000 of the source, which equals MAX_STREAM_LENGTH there.
ScanLimit == MAX_STREAM_LENGTH

\* The first activity of a sequence with the id, <<>> for None.
FirstWithId(activities, activity_id) ==
    IF \E i \in 1..Len(activities) : activities[i].id = activity_id
    THEN <<activities[CHOOSE i \in 1..Len(activities) :
                /\ activities[i].id = activity_id
                /\ \A j \in 1..(i - 1) : activities[j].id # activity_id]>>
    ELSE <<>>

\* The streams get_activity_by_id searches, in order.
SearchKeys(entity_id, user_id) ==
    LET keys == (IF entity_id # "" THEN <<ACTIVITY_ENTITY(entity_id)>> ELSE <<>>)
                    \o (IF user_id # "" THEN <<ACTIVITY_USER(user_id)>> ELSE <<>>)
    IN  IF keys = <<>> THEN <<ACTIVITY_GLOBAL>> ELSE keys

\* get_activity_by_id(activity_id, entity_id, user_id): <<activity>> or <<>>.
RECURSIVE FindInKeys(_, _)
FindInKeys(keys, activity_id) ==
    IF keys = <<>> THEN <<>>
    ELSE LET hit == FirstWithId(get_activities(streams[Head(keys)], 0, ScanLimit, ""),
                                activity_id)
         IN  IF hit # <<>> THEN hit ELSE FindInKeys(Tail(keys), activity_id)

get_activity_by_id(activity_id, entity_id, user_id) ==
    FindInKeys(SearchKeys(entity_id, user_id), activity_id)

\* Trending keys: KeyPatterns.TRENDING_* formatted with a timeframe value.
TrendTypes == {"topics", "hashtags", "entities"}

\* The values of the enum TimeFrames.
TimeFrames == {"1h", "6h", "1d", "1w", "1m"}

\* TimeFrames.HOUR and TimeFrames.SIX_HOURS.
ShortFrames == {"1h", "6h"}

TrendKeys == TrendTypes \X TimeFrames

\* The item ids bumped.
Items == {"a", "b", "c"}

\* EntityMetricsFields: two counters of the entity metrics hash.
CounterFields == {"posts_count", "total_likes"}

\* The concurrent callers of increment_entity_metrics.
MProcs == {"m1", "m2"}

\* A caller between two calls; last is its last completed increment, if any.
MIdle(last) == [pc |-> "idle", last |-> last]

\* The concurrent callers of ActivityService.
Procs == {"p1", "p2"}

\* A caller between two calls; last is its last completed delete, if any.
Idle(last) == [pc |-> "idle", last |-> last]

\* The concurrent callers of check_rate_limit.
RLProcs == {"r1", "r2"}

\* The concurrent callers of acknowledge_alert.
AckProcs == {"k1", "k2"}

\* A caller of check_rate_limit or acknowledge_alert between two calls.
AtRest == [pc |-> "idle"]

\* The state after construction: no key exists in Redis, no call was made.
Init ==
    /\ rlCount = 0
    /\ rlTtl = KEY_ABSENT
    /\ rlLast = NoCall
    /\ rlWin = NoWindow
    /\ streams = [k \in StreamKeys |-> <<>>]
    /\ nextId = 1
    /\ actLast = NoCall
    /\ actHist = [pushes |-> [k \in StreamKeys |-> 0], clean |-> TRUE,
                  log |-> [k \in StreamKeys |-> <<>>]]
    /\ procs = [p \in Procs |-> Idle(NoCall)]
    /\ alerts = {}
    /\ now = 0
    /\ alSeq = 0
    /\ alLast = NoCall
    /\ metrics = <<>>
    /\ mTtl = KEY_ABSENT
    /\ mClock = 0
    /\ mLast = NoCall
    /\ mProcs = [p \in MProcs |-> MIdle(NoCall)]
    /\ mSum = [sum |-> [f \in CounterFields |-> 0], calls |-> 0]
    /\ trending = [k \in TrendKeys |-> {}]
    /\ tTtl = [k \in TrendKeys |-> KEY_ABSENT]
    /\ tLast = NoCall
    /\ tHist = [sums |-> [k \in TrendKeys |-> [m \in Items |-> 0]], bumps |-> 0,
                ticks |-> 0, age |-> [k \in TrendKeys |-> -1]]
    /\ velLast = NoCall
    /\ boards = {}
    /\ bTtl = KEY_ABSENT
    /\ lbLast = NoCall
    /\ lbHist = [written |-> [e \in Items |-> <<>>], calls |-> 0]
    /\ cache = [string |-> <<>>, hash |-> <<>>, list |-> <<>>,
                ttl |-> [k \in {"string", "hash", "list"} |-> KEY_ABSENT],
                given |-> [string |-> <<>>, hash |-> <<>>, list |-> <<>>],
                writes |-> 0]
    /\ cacheLast = NoCall
    /\ rlProcs = [p \in RLProcs |-> AtRest]
    /\ ackProcs = [p \in AckProcs |-> AtRest]

\* One call of add_activity.
AddActivity(entity_id, user_id, type, add_to_global, faults) ==
    LET r == add_activity(entity_id, user_id, type, add_to_global, faults)
        n == Len(RequestedScopes(entity_id, user_id, add_to_global))
    IN  /\ streams' = r.streams
        /\ nextId' = nextId + n
        /\ actLast' = [op |-> "add", entity_id |-> entity_id, user_id |-> user_id,
                       type |-> type, add_to_global |-> add_to_global,
                       faults |-> faults, result |-> r.result_ids, pre |-> streams]
        /\ actHist' =
             [pushes |-> [k \in StreamKeys |->
                            IF \E sc \in DOMAIN r.result_ids :
                                  /\ ScopeKey(sc, entity_id, user_id) = k
                                  /\ faults[sc] # "lpush"
                            THEN actHist.pushes[k] + 1 ELSE actHist.pushes[k]],
              clean |-> actHist.clean
                          /\ \A sc \in DOMAIN r.result_ids : r.result_ids[sc] # EMPTY_ID,
              log |-> [k \in StreamKeys |->
                         LET pushing == {i \in 1..n :
                                 LET sc == RequestedScopes(entity_id, user_id,
                                                           add_to_global)[i]
                                 IN  /\ ScopeKey(sc, entity_id, user_id) = k
                                     /\ faults[sc] # "lpush"}
                         IN  IF pushing = {} THEN actHist.log[k]
                             ELSE <<[id |-> nextId + (CHOOSE i \in pushing : TRUE) - 1,
                                     type |-> type]>> \o actHist.log[k]]]
        /\ UNCHANGED <<auxVars, procs, rlVars, alertVars, metricVars, trendVars>>

\* One call of get_entity_activities(entity_id, start, limit, activity_type).
GetEntityActivities(entity_id, start, limit, activity_type) ==
    /\ actLast' = [op |-> "range", key |-> ACTIVITY_ENTITY(entity_id),
                   start |-> start, limit |-> limit, activity_type |-> activity_type,
                   result |-> get_activities(streams[ACTIVITY_ENTITY(entity_id)],
                                             start, limit, activity_type),
                   pre |-> streams]
    /\ UNCHANGED <<auxVars, streams, nextId, actHist, procs, rlVars, alertVars, metricVars, trendVars>>

\* One call of get_activity_by_id(activity_id, entity_id).
GetActivityById(activity_id, entity_id) ==
    /\ actLast' = [op |-> "find", key |-> ACTIVITY_ENTITY(entity_id),
                   activity_id |-> activity_id,
                   result |-> get_activity_by_id(activity_id, entity_id, ""),
                   pre |-> streams]
    /\ UNCHANGED <<auxVars, streams, nextId, actHist, procs, rlVars, alertVars, metricVars, trendVars>>

NoFaults == [sc \in {"entity", "user", "global"} |-> "none"]

\* Single stream: adds to the stream of entity e1, any command of which may
\* fail, and lookups by id.
StreamNext ==
    \/ \E fault \in AddFaults :
           /\ nextId <= MaxIds
           /\ AddActivity("e1", "", "post", FALSE, [NoFaults EXCEPT !["entity"] = fault])
    \/ \E id \in 1..MaxIds :
           /\ id < nextId
           /\ GetActivityById(id, "e1")

SpecStream == Init /\ [][StreamNext]_vars

\* Range reads: adds of both types to the stream of entity e1, and pages of it.
RangeNext ==
    \/ \E type \in ActivityTypes :
           /\ nextId <= MaxRangeIds
           /\ AddActivity("e1", "", type, FALSE, NoFaults)
    \/ \E start \in 0..MaxStart, limit \in 0..MaxPage,
          activity_type \in ActivityTypes \cup {""} :
           GetEntityActivities("e1", start, limit, activity_type)

SpecRange == Init /\ [][RangeNext]_vars

\* Fan-out: adds to any combination of scopes, the lpush or the llen of any
\* of which may fail (the lists stay too short for an ltrim to be issued).
FanNext ==
    \E entity_id \in Entities \cup {""}, user_id \in Users \cup {""},
       add_to_global \in BOOLEAN,
       faults \in [{"entity", "user", "global"} -> AddFaults \ {"ltrim"}] :
        /\ nextId + Len(RequestedScopes(entity_id, user_id, add_to_global)) <= MaxFanIds + 1
        /\ \A sc \in {"entity", "user", "global"} :
             (\A i \in 1..Len(RequestedScopes(entity_id, user_id, add_to_global)) :
                 RequestedScopes(entity_id, user_id, add_to_global)[i] # sc)
                => faults[sc] = "none"
        /\ AddActivity(entity_id, user_id, "post", add_to_global, faults)

SpecFan == Init /\ [][FanNext]_vars

(***************************************************************************)
(* Activity streams under concurrent callers: each caller runs one         *)
(* _add_to_list or _delete_from_list call on the stream of entity e1 at a  *)
(* time, one Redis command per step (every await is a point where another  *)
(* caller's command can be served).                                        *)
(***************************************************************************)
\* The indices i of enumerate(activities) at which _delete_from_list finds
\* activity_id, in the order of its loop.
MatchingIndices(activities, activity_id) ==
    LET F[n \in 0..Len(activities)] ==
            IF n = 0 THEN <<>>
            ELSE IF activities[n].id = activity_id THEN Append(F[n - 1], n - 1)
                 ELSE F[n - 1]
    IN  F[Len(activities)]

\* lpush of _add_to_list, with the id generated just before it.
AddLPushUpTo(p, max_ids) ==
    /\ procs[p].pc = "idle"
    /\ nextId <= max_ids
    /\ streams' = [streams EXCEPT ![ACTIVITY_ENTITY("e1")] =
                        LPush(@, [id |-> nextId, type |-> "post"])]
    /\ nextId' = nextId + 1
    /\ procs' = [procs EXCEPT ![p] = [pc |-> "add_llen", activity_id |-> nextId]]
    /\ UNCHANGED <<auxVars, actLast, actHist, rlVars, alertVars, metricVars, trendVars>>

AddLPush(p) == AddLPushUpTo(p, MaxConcIds)

\* llen of _add_to_list and the threshold test on its answer.
AddLLen(p) ==
    /\ procs[p].pc = "add_llen"
    /\ procs' = [procs EXCEPT ![p] =
                    IF OverThreshold(LLen(streams[ACTIVITY_ENTITY("e1")]))
                    THEN [pc |-> "add_ltrim", activity_id |-> procs[p].activity_id]
                    ELSE Idle(NoCall)]
    /\ UNCHANGED <<auxVars, streams, nextId, actLast, actHist, rlVars, alertVars, metricVars, trendVars>>

\* ltrim of _add_to_list.
AddLTrim(p) ==
    /\ procs[p].pc = "add_ltrim"
    /\ streams' = [streams EXCEPT ![ACTIVITY_ENTITY("e1")] = LTrim(@, 0, TrimStop)]
    /\ procs' = [procs EXCEPT ![p] = Idle(NoCall)]
    /\ UNCHANGED <<auxVars, nextId, actLast, actHist, rlVars, alertVars, metricVars, trendVars>>

\* The loop of _delete_from_list from the indices still to visit: returns
\* False when none is left, else goes on to lindex at the first of them.
DeleteLoop(activity_id, indices) ==
    IF indices = <<>>
    THEN Idle([op |-> "delete", activity_id |-> activity_id, removed |-> <<>>,
               ret |-> FALSE])
    ELSE [pc |-> "del_lindex", activity_id |-> activity_id, indices |-> indices]

\* lrange of _delete_from_list (through _get_activities) and the search of
\* its answer for the id.
DelLRange(p, activity_id) ==
    /\ procs[p].pc = "idle"
    /\ activity_id < nextId
    /\ procs' = [procs EXCEPT ![p] =
                    DeleteLoop(activity_id,
                               MatchingIndices(
                                   get_activities(streams[ACTIVITY_ENTITY("e1")],
                                                  0, ScanLimit, ""),
                                   activity_id))]
    /\ UNCHANGED <<auxVars, streams, nextId, actLast, actHist, rlVars, alertVars, metricVars, trendVars>>

\* lindex of _delete_from_list at the index found; on nil the loop goes on.
DelLIndex(p) ==
    /\ procs[p].pc = "del_lindex"
    /\ LET serialized == LIndex(streams[ACTIVITY_ENTITY("e1")], Head(procs[p].indices))
       IN  procs' = [procs EXCEPT ![p] =
                        IF serialized # <<>>
                        THEN [pc |-> "del_lrem", activity_id |-> procs[p].activity_id,
                              serialized |-> serialized[1]]
                        ELSE DeleteLoop(procs[p].activity_id, Tail(procs[p].indices))]
    /\ UNCHANGED <<auxVars, streams, nextId, actLast, actHist, rlVars, alertVars, metricVars, trendVars>>

\* lrem of _delete_from_list; the call returns True.  removed records the
\* elements the command took out of the list.
DelLRem(p) ==
    /\ procs[p].pc = "del_lrem"
    /\ LET list == streams[ACTIVITY_ENTITY("e1")]
           left == LRem1(list, procs[p].serialized)
       IN  /\ streams' = [streams EXCEPT ![ACTIVITY_ENTITY("e1")] = left]
           /\ procs' = [procs EXCEPT ![p] =
                          Idle([op |-> "delete", activity_id |-> procs[p].activity_id,
                                removed |-> SelectSeq(list,
                                    LAMBDA a : \A i \in 1..Len(left) : left[i] # a),
                                ret |-> TRUE])]
    /\ UNCHANGED <<auxVars, nextId, actLast, actHist, rlVars, alertVars, metricVars, trendVars>>

ConcNext ==
    \E p \in Procs :
        \/ AddLPush(p)
        \/ AddLLen(p)
        \/ AddLTrim(p)
        \/ \E activity_id \in 1..MaxConcIds : DelLRange(p, activity_id)
        \/ DelLIndex(p)
        \/ DelLRem(p)

SpecConc == Init /\ [][ConcNext]_vars

\* Most activities added by the concurrent writers when nothing is deleted.
MaxAddIds == 10

\* Concurrent add_activity calls on one stream, nothing else.
ConcAddNext ==
    \/ \E p \in Procs : AddLPushUpTo(p, MaxAddIds)
    \/ \E p \in Procs : AddLLen(p)
    \/ \E p \in Procs : AddLTrim(p)

SpecConcAdd == Init /\ [][ConcAddNext]_vars

SpecRL == Init /\ [][RLNext]_vars

(***************************************************************************)
(* Alert queue of one entity                                               *)
(***************************************************************************)
PriorityNames == {"LOW", "MEDIUM", "HIGH", "CRITICAL"}

\* AlertPriority[name].value
AlertPriority(name) ==
    CASE name = "LOW" -> 1
      [] name = "MEDIUM" -> 5
      [] name = "HIGH" -> 10
      [] name = "CRITICAL" -> 20

ScoreScale == 10000     \* the factor of priority.value in the score

\* score = time.time() + (priority.value * 10000)
alert_score_unscaled(time, priority) == time + AlertPriority(priority)

alert_score(time, priority) == time + AlertPriority(priority) * ScoreScale

\* Redis sorted set commands on the value of one key.  ZADD sets the score of
\* a member, adding it if new.
ZAdd(zset, member, score) ==
    {e \in zset : e.member # member} \cup {[member |-> member, score |-> score]}

\* The order of the members' JSON texts: by the id, then by the priority name,
\* then by the timestamp.
NameRank(name) ==
    CASE name = "CRITICAL" -> 1
      [] name = "HIGH" -> 2
      [] name = "LOW" -> 3
      [] name = "MEDIUM" -> 4

MemberBefore(a, b) ==
    \/ a.id < b.id
    \/ a.id = b.id /\ NameRank(a.priority) < NameRank(b.priority)
    \/ a.id = b.id /\ a.priority = b.priority /\ a.seq < b.seq

\* e sorts before f in ascending order: by score, equal scores by member.
EntryBefore(e, f) ==
    \/ e.score < f.score
    \/ e.score = f.score /\ MemberBefore(e.member, f.member)

\* The members from the highest score down.
RECURSIVE Descending(_)
Descending(zset) ==
    IF zset = {} THEN <<>>
    ELSE LET top == CHOOSE e \in zset : \A f \in zset \ {e} : EntryBefore(f, e)
         IN  <<top.member>> \o Descending(zset \ {top})

\* ZREVRANGE key start stop
ZRevRange(zset, start, stop) == LRange(Descending(zset), start, stop)

\* The store commands of the AlertService calls; a call's input is the one
\* that raises, if any.
RaiseFaults == {"none", "zadd", "publish"}
PendingFaults == {"none", "zrevrange"}
AcknowledgeFaults == {"none", "zrevrange", "zrem"}

\* create_entity_alert(entity_id, alert_type, message, priority, data, publish)
\* with the clock reading time: the sorted set left, the alert id returned and
\* whether an exception left the call.  The member is the alert's JSON: its id
\* holds the clock reading, its timestamp (seq) differs for every alert.
\* Nothing catches the exception of a failing command.
create_entity_alert(zset, time, seq, priority, publish, fault) ==
    LET alert_id == time
        alert_data == [id |-> alert_id, priority |-> priority, seq |-> seq]
        score == alert_score(time, priority)
    IN  IF fault = "zadd"
        THEN [alerts |-> zset, raised |-> TRUE, failed |-> {"zadd"}]
        ELSE IF publish /\ fault = "publish"
        THEN [alerts |-> ZAdd(zset, alert_data, score), raised |-> TRUE,
              failed |-> {"publish"}]
        ELSE [alerts |-> ZAdd(zset, alert_data, score), raised |-> FALSE,
              failed |-> {}, alert_id |-> alert_id]

\* The priority filter of get_entity_alerts.
AtLeastPriority(alert, min_priority) ==
    AlertPriority(alert.priority) >= AlertPriority(min_priority)

\* get_entity_alerts(entity_id, limit, min_priority)
get_entity_alerts(limit, min_priority) ==
    SelectSeq(ZRevRange(alerts, 0, limit - 1),
              LAMBDA m : AtLeastPriority(m, min_priority))

\* acknowledge_alert(entity_id, alert_id): the first member, from the highest
\* score down, whose id is alert_id is removed, and the loop stops.
acknowledge_alert(zset, alert_id, fault) ==
    IF fault = "zrevrange"
    THEN [alerts |-> zset, raised |-> TRUE, failed |-> {"zrevrange"}]
    ELSE LET alerts_json == ZRevRange(zset, 0, 0 - 1)
             hits == {i \in 1..Len(alerts_json) : alerts_json[i].id = alert_id}
         IN  IF hits = {}
             THEN [alerts |-> zset, raised |-> FALSE, failed |-> {}, removed |-> FALSE]
             ELSE LET i == CHOOSE i \in hits : \A j \in hits : i <= j
                  IN  IF fault = "zrem"
                      THEN [alerts |-> zset, raised |-> TRUE, failed |-> {"zrem"}]
                      ELSE [alerts |-> {e \in zset : e.member # alerts_json[i]},
                            raised |-> FALSE, failed |-> {}, removed |-> TRUE]

\* One call of create_entity_alert.
CreateEntityAlert(priority, publish, fault) ==
    /\ alSeq < MaxAlerts
    /\ LET r == create_entity_alert(alerts, now, alSeq + 1, priority, publish, fault)
       IN  /\ alerts' = r.alerts
           /\ alLast' = [op |-> "raise", priority |-> priority, seq |-> alSeq + 1,
                         failed |-> r.failed, raised |-> r.raised,
                         alert_id |-> IF r.raised THEN <<>> ELSE <<r.alert_id>>]
    /\ alSeq' = alSeq + 1
    /\ UNCHANGED <<auxVars, now, rlVars, actVars, metricVars, trendVars>>

\* One call of get_entity_alerts; a failing zrevrange raises out of the call.
GetEntityAlerts(limit, min_priority, fault) ==
    /\ alLast' = [op |-> "pending", limit |-> limit, min_priority |-> min_priority,
                  failed |-> IF fault = "none" THEN {} ELSE {fault},
                  raised |-> fault # "none",
                  result |-> IF fault = "none"
                             THEN get_entity_alerts(limit, min_priority) ELSE <<>>]
    /\ UNCHANGED <<auxVars, alerts, now, alSeq, rlVars, actVars, metricVars, trendVars>>

\* One call of acknowledge_alert.
AcknowledgeAlert(alert_id, fault) ==
    /\ LET r == acknowledge_alert(alerts, alert_id, fault)
       IN  /\ alerts' = r.alerts
           /\ alLast' = [op |-> "acknowledge", alert_id |-> alert_id,
                         failed |-> r.failed, raised |-> r.raised,
                         removed |-> IF r.raised THEN FALSE ELSE r.removed]
    /\ UNCHANGED <<auxVars, now, alSeq, rlVars, actVars, metricVars, trendVars>>

\* The clock advances by an hour (MaxHours times a day) or by a day (once).
AlertTick(seconds) ==
    /\ seconds = 3600 => (now % 86400) \div 3600 < MaxHours
    /\ seconds = 86400 => now < 86400
    /\ now' = now + seconds
    /\ alLast' = NoCall
    /\ UNCHANGED <<auxVars, alerts, alSeq, rlVars, actVars, metricVars, trendVars>>

\* Alerts are raised and read while the clock runs; no command fails.
AlertNext ==
    \/ \E priority \in PriorityNames : CreateEntityAlert(priority, TRUE, "none")
    \/ \E limit \in 0..MaxAlerts, min_priority \in PriorityNames :
           GetEntityAlerts(limit, min_priority, "none")
    \/ \E seconds \in {3600, 86400} : AlertTick(seconds)

SpecAlert == Init /\ [][AlertNext]_vars

\* Alerts are raised, read and acknowledged, and any command may fail.
AlertOpsNext ==
    \/ \E priority \in {"LOW", "CRITICAL"}, publish \in BOOLEAN, fault \in RaiseFaults :
           CreateEntityAlert(priority, publish, fault)
    \/ \E limit \in 0..MaxAlerts, min_priority \in {"LOW", "CRITICAL"},
          fault \in PendingFaults :
           GetEntityAlerts(limit, min_priority, fault)
    \/ \E alert_id \in {e.member.id : e \in alerts} \cup {now}, fault \in AcknowledgeFaults :
           AcknowledgeAlert(alert_id, fault)
    \/ AlertTick(3600)

SpecAlertOps == Init /\ [][AlertOpsNext]_vars

(***************************************************************************)
(* Entity metrics hash of one entity                                       *)
(***************************************************************************)
\* EntityMetricsFields: the timestamp field, and all the fields modelled.
LAST_UPDATED == "last_updated"

MetricFields == CounterFields \cup {LAST_UPDATED}

STANDARD == 3600    \* TTLValues.STANDARD

\* The ttl argument: <<>> is None, <<n>> is n seconds.
TtlChoices == {<<>>, <<STANDARD>>}

\* The integers the hash can hold within the bounds, and their decimal text.
\* The deltas of the increment calls.
Deltas == {1, 2}

MetricInts == 0..(2 * MaxIncrCalls + 2)

IntText(n) == ToString(n)

IsIntText(text) == \E n \in MetricInts : IntText(n) = text

IntOfText(text) == CHOOSE n \in MetricInts : IntText(n) = text

\* A Python value is modelled by its kind and by the text that reaches the
\* hash for it: str(value) for a scalar, json.dumps(value) for a container.
PyInt(n) == [kind |-> "int", text |-> IntText(n)]

PyStr(s) == [kind |-> "str", text |-> s]

PyList == [kind |-> "list", text |-> "[1, 2]"]

PyNone == [kind |-> "none", text |-> ""]

\* datetime.utcnow().isoformat()
IsoFormat(time) == "2024-01-01T" \o ToString(time)

\* The values a caller passes to update_entity_metrics.
UpdateValues == {PyInt(1), PyStr("x"), PyList}

\* The maps a caller passes to update_entity_metrics: any fields, and the
\* caller may name last_updated itself.
UpdateMaps ==
    UNION {[fs -> UpdateValues] : fs \in SUBSET CounterFields}
      \cup {[f \in {LAST_UPDATED} |-> PyStr("2000-01-01T0")]}
      \cup {[f \in {"posts_count", LAST_UPDATED} |->
                IF f = LAST_UPDATED THEN PyStr("2000-01-01T0") ELSE PyInt(1)]}

\* Redis hash commands on the value of one key: a function from the fields
\* present to their texts.
HSet(hash, mapping) ==
    [f \in DOMAIN hash \cup DOMAIN mapping |->
        IF f \in DOMAIN mapping THEN mapping[f] ELSE hash[f]]

\* HINCRBY: the hash left and the new value; an absent field counts from 0.
HIncrByOverwrite(hash, field, increment) ==
    [hash |-> HSet(hash, [f \in {field} |-> IntText(increment)]),
     value |-> increment]

HIncrBy(hash, field, increment) ==
    LET old == IF field \in DOMAIN hash THEN IntOfText(hash[field]) ELSE 0
    IN  [hash |-> HSet(hash, [f \in {field} |-> IntText(old + increment)]),
         value |-> old + increment]

\* HMGET: for each field asked its text in a one-element sequence, <<>> for nil.
HMGet(hash, fields) ==
    [f \in fields |-> IF f \in DOMAIN hash THEN <<hash[f]>> ELSE <<>>]

\* HGETALL
HGetAll(hash) == [f \in DOMAIN hash |-> <<hash[f]>>]

\* The value get_entity_metrics makes of a stored text: json.loads where the
\* text is JSON (a number, a container), the text itself otherwise.
parse_value(text) ==
    IF IsIntText(text) THEN [kind |-> "int", text |-> text]
    ELSE IF text = PyList.text THEN PyList
    ELSE [kind |-> "str", text |-> text]

MetricsFaults == {"none", "hset", "expire"}

\* The fields update_entity_metrics writes: the caller's own, formatted, and
\* last_updated set to the time of the call unless the caller names it.
formatted_metrics(metrics_arg, time) ==
    [f \in DOMAIN metrics_arg \cup {LAST_UPDATED} |->
        IF f \in DOMAIN metrics_arg THEN metrics_arg[f].text ELSE IsoFormat(time)]

\* update_entity_metrics(entity_id, metrics, ttl): the hash and TTL left and
\* the value returned; any exception returns False from where it happens.
update_entity_metrics(hash, ttl_now, metrics_arg, ttl, time, fault) ==
    IF fault = "hset"
    THEN [hash |-> hash, ttl |-> ttl_now, ret |-> FALSE, failed |-> {"hset"}]
    ELSE LET written == HSet(hash, formatted_metrics(metrics_arg, time))
             kept == IF ttl_now = KEY_ABSENT THEN KEY_NO_EXPIRY ELSE ttl_now
         IN  IF ttl = <<>>
             THEN [hash |-> written, ttl |-> kept, ret |-> TRUE, failed |-> {}]
             ELSE IF fault = "expire"
             THEN [hash |-> written, ttl |-> kept, ret |-> FALSE, failed |-> {"expire"}]
             ELSE [hash |-> written, ttl |-> ttl[1], ret |-> TRUE, failed |-> {}]

\* The fields of the result of get_entity_metrics before parsing: those of
\* HMGET when fields are named, those of HGETALL otherwise.
requested(hash, fields) ==
    IF fields # {} THEN HMGet(hash, fields) ELSE HGetAll(hash)

\* get_entity_metrics(entity_id, fields); fields = {} stands for None (and
\* for the empty list, which takes the same branch).
get_entity_metrics(hash, fields, fault) ==
    IF fault # "none" THEN <<>>
    ELSE LET result == requested(hash, fields)
         IN  [f \in DOMAIN result |->
                 IF result[f] = <<>> THEN PyNone ELSE parse_value(result[f][1])]

\* One call of update_entity_metrics.
UpdateEntityMetrics(metrics_arg, ttl, fault) ==
    /\ LET r == update_entity_metrics(metrics, mTtl, metrics_arg, ttl, mClock, fault)
       IN  /\ metrics' = r.hash
           /\ mTtl' = r.ttl
           /\ mLast' = [op |-> "update", metrics |-> metrics_arg, ttl |-> ttl,
                        failed |-> r.failed, ret |-> r.ret, time |-> mClock]
    /\ UNCHANGED <<auxVars, mClock, mProcs, mSum, rlVars, actVars, alertVars, trendVars>>

\* One call of get_entity_metrics.
GetEntityMetrics(fields, fault) ==
    /\ mLast' = [op |-> "get", fields |-> fields,
                 failed |-> IF fault = "none" THEN {} ELSE {fault},
                 pre |-> metrics,
                 result |-> get_entity_metrics(metrics, fields, fault)]
    /\ UNCHANGED <<auxVars, metrics, mTtl, mClock, mProcs, mSum, rlVars, actVars, alertVars,
                   trendVars>>

\* STANDARD seconds pass: a hash with a TTL of that length expires.
MetricsTick ==
    /\ mClock < MaxMetricTicks * STANDARD
    /\ mClock' = mClock + STANDARD
    /\ IF mTtl > 0 /\ mTtl <= STANDARD
       THEN metrics' = <<>> /\ mTtl' = KEY_ABSENT
       ELSE UNCHANGED <<metrics, mTtl>>
    /\ mLast' = NoCall
    /\ UNCHANGED <<auxVars, mProcs, mSum, rlVars, actVars, alertVars, trendVars>>

MetricsNext ==
    \/ \E metrics_arg \in UpdateMaps, ttl \in TtlChoices, fault \in MetricsFaults :
           UpdateEntityMetrics(metrics_arg, ttl, fault)
    \/ \E fields \in SUBSET MetricFields, fault \in {"none", "hmget"} :
           GetEntityMetrics(fields, fault)
    \/ MetricsTick

SpecMetrics == Init /\ [][MetricsNext]_vars

\* The maps a caller passes to increment_entity_metrics, in the order of the
\* dictionary: counters without repetition, each with a delta.
IncrementMaps ==
    LET items == [field : CounterFields, increment : Deltas]
    IN  {<<>>} \cup {<<i>> : i \in items}
          \cup {s \in items \X items :
                   s[1].field # s[2].field /\ s[1].increment = s[2].increment}

\* increment_entity_metrics, one store command at a time.  The call begins:
\* key and results are set.
IncrBegin(p, metrics_arg, ttl) ==
    /\ mProcs[p].pc = "idle"
    /\ mSum.calls < MaxIncrCalls
    /\ mProcs' = [mProcs EXCEPT ![p] =
            [pc |-> IF metrics_arg = <<>> THEN "hset" ELSE "hincrby",
             todo |-> metrics_arg, ttl |-> ttl,
             results |-> <<>>, after |-> <<>>]]
    /\ mSum' = [mSum EXCEPT !.calls = @ + 1]
    /\ mLast' = NoCall
    /\ UNCHANGED <<auxVars, metrics, mTtl, mClock, rlVars, actVars, alertVars, trendVars>>

\* new_value = await self.redis.hincrby(key, field, increment)
IncrHIncrBy(p) ==
    /\ mProcs[p].pc = "hincrby"
    /\ LET item == Head(mProcs[p].todo)
           r == HIncrBy(metrics, item.field, item.increment)
           rest == Tail(mProcs[p].todo)
       IN  /\ metrics' = r.hash
           /\ mTtl' = IF mTtl = KEY_ABSENT THEN KEY_NO_EXPIRY ELSE mTtl
           /\ mProcs' = [mProcs EXCEPT ![p] =
                   [@ EXCEPT !.pc = IF rest = <<>> THEN "hset" ELSE "hincrby",
                             !.todo = rest,
                             !.results = [f \in DOMAIN @ \cup {item.field} |->
                                             IF f = item.field THEN r.value ELSE @[f]],
                             !.after = [f \in DOMAIN @ \cup {item.field} |->
                                           IF f = item.field THEN r.hash[f] ELSE @[f]]]]
           /\ mSum' = [mSum EXCEPT !.sum[item.field] = @ + item.increment]
    /\ mLast' = NoCall
    /\ UNCHANGED <<auxVars, mClock, rlVars, actVars, alertVars, trendVars>>

\* await self.redis.hset(key, LAST_UPDATED, datetime.utcnow().isoformat())
IncrHSet(p) ==
    /\ mProcs[p].pc = "hset"
    /\ metrics' = HSet(metrics, [f \in {LAST_UPDATED} |-> IsoFormat(mClock)])
    /\ mTtl' = IF mTtl = KEY_ABSENT THEN KEY_NO_EXPIRY ELSE mTtl
    /\ mProcs' = [mProcs EXCEPT ![p] =
            IF @.ttl = <<>>
            THEN MIdle([op |-> "increment", results |-> @.results, after |-> @.after])
            ELSE [@ EXCEPT !.pc = "expire"]]
    /\ mLast' = NoCall
    /\ UNCHANGED <<auxVars, mClock, mSum, rlVars, actVars, alertVars, trendVars>>

\* await self.redis.expire(key, ttl); return results
IncrExpire(p) ==
    /\ mProcs[p].pc = "expire"
    /\ mTtl' = mProcs[p].ttl[1]
    /\ mProcs' = [mProcs EXCEPT ![p] =
            MIdle([op |-> "increment", results |-> @.results, after |-> @.after])]
    /\ mLast' = NoCall
    /\ UNCHANGED <<auxVars, metrics, mClock, mSum, rlVars, actVars, alertVars, trendVars>>

\* Concurrent increments of one entity's hash, and snapshots of it; nothing
\* expires, no update is made and no command fails.
MetricsConcNext ==
    \/ \E p \in MProcs, metrics_arg \in IncrementMaps, ttl \in TtlChoices :
           IncrBegin(p, metrics_arg, ttl)
    \/ \E p \in MProcs : IncrHIncrBy(p)
    \/ \E p \in MProcs : IncrHSet(p)
    \/ \E p \in MProcs : IncrExpire(p)
    \/ GetEntityMetrics({}, "none")

SpecMetricsConc == Init /\ [][MetricsConcNext]_vars

(***************************************************************************)
(* Trending sorted sets                                                    *)
(***************************************************************************)
HOUR_DATA == 3600           \* TTLValues.HOUR_DATA

SIX_HOUR_DATA == 21600      \* TTLValues.SIX_HOUR_DATA

DAY_DATA == 86400           \* TTLValues.DAY_DATA

WEEK_DATA == 604800         \* TTLValues.WEEK_DATA

MONTH_DATA == 2592000       \* TTLValues.MONTH_DATA

\* TTLValues.for_timeframe
for_timeframe_standard(timeframe) == STANDARD

for_timeframe(timeframe) ==
    CASE timeframe = "1h" -> HOUR_DATA
      [] timeframe = "6h" -> SIX_HOUR_DATA
      [] timeframe = "1d" -> DAY_DATA
      [] timeframe = "1w" -> WEEK_DATA
      [] timeframe = "1m" -> MONTH_DATA
      [] OTHER -> STANDARD

\* An item type that is none of topics, hashtags, entities.
UNKNOWN_TYPE == "users"

\* The if / elif chain that picks the key pattern: a one-element sequence with
\* the key of (item_type, timeframe), <<>> where it raises ValueError.
trending_key(item_type, timeframe) ==
    IF item_type = "topics" THEN <<(<<"topics", timeframe>>)>>
    ELSE IF item_type = "hashtags" THEN <<(<<"hashtags", timeframe>>)>>
    ELSE IF item_type = "entities" THEN <<(<<"entities", timeframe>>)>>
    ELSE <<>>

\* The score of member in a sorted set, 0 when it has none.
ZScore(zset, member) ==
    IF \E e \in zset : e.member = member
    THEN (CHOOSE e \in zset : e.member = member).score
    ELSE 0

\* ZINCRBY key increment member
ZIncrBy(zset, member, increment) ==
    ZAdd(zset, member, ZScore(zset, member) + increment)

\* The lexicographic order of the item ids.
ItemRank(item) ==
    CASE item = "a" -> 1
      [] item = "b" -> 2
      [] item = "c" -> 3

\* e sorts before f in ascending order: by score, equal scores by member.
ItemEntryBefore(e, f) ==
    \/ e.score < f.score
    \/ e.score = f.score /\ ItemRank(e.member) < ItemRank(f.member)

\* The entries from the highest score down.
RECURSIVE ItemsDescending(_)
ItemsDescending(zset) ==
    IF zset = {} THEN <<>>
    ELSE LET top == CHOOSE e \in zset : \A f \in zset \ {e} : ItemEntryBefore(f, e)
         IN  <<top>> \o ItemsDescending(zset \ {top})

\* ZREVRANGE key start stop WITHSCORES
ZRevRangeWithScores(zset, start, stop) == LRange(ItemsDescending(zset), start, stop)

\* ZREVRANK key member: how many entries come before it from the highest score
\* down, in a one-element sequence; <<>> (nil) when member has no score.
ZRankAscending(zset, member) ==
    IF \E e \in zset : e.member = member
    THEN LET e == CHOOSE e \in zset : e.member = member
         IN  <<Cardinality({f \in zset : ItemEntryBefore(f, e)})>>
    ELSE <<>>

ZRevRank(zset, member) ==
    IF \E e \in zset : e.member = member
    THEN LET e == CHOOSE e \in zset : e.member = member
         IN  <<Cardinality({f \in zset : ItemEntryBefore(e, f)})>>
    ELSE <<>>

BumpFaults == {"none", "expire"}

\* The scores bumped and the limits asked of get_trending_items.
Scores == {1, 2}

TopLimits == 0..2

\* update_trending_item(item_type, item_id, score, timeframe): the sets and
\* TTLs left, the value returned and whether an exception left the call.  The
\* ValueError of an unknown item type is raised inside the try block, whose
\* except Exception returns False.
update_trending_item(sets, ttls, item_type, item_id, score, timeframe, fault) ==
    LET key == trending_key(item_type, timeframe)
    IN  IF key = <<>>
        THEN [sets |-> sets, ttls |-> ttls, ret |-> FALSE, raised |-> FALSE, failed |-> {}]
        ELSE LET k == key[1]
                 bumped == [sets EXCEPT ![k] = ZIncrBy(@, item_id, score)]
                 kept == [ttls EXCEPT ![k] = IF @ = KEY_ABSENT THEN KEY_NO_EXPIRY ELSE @]
             IN  IF fault = "expire"
                 THEN [sets |-> bumped, ttls |-> kept, ret |-> FALSE, raised |-> FALSE,
                       failed |-> {"expire"}]
                 ELSE [sets |-> bumped,
                       ttls |-> [ttls EXCEPT ![k] = for_timeframe(timeframe)],
                       ret |-> TRUE, raised |-> FALSE, failed |-> {}]

\* get_trending_items(item_type, timeframe, limit, with_scores): the list
\* returned ((item, score) pairs, or items) and whether an exception left the call.
get_trending_items(sets, item_type, timeframe, limit, with_scores, fault) ==
    LET key == trending_key(item_type, timeframe)
    IN  IF key = <<>> \/ fault # "none"
        THEN [result |-> <<>>, raised |-> FALSE]
        ELSE LET items == ZRevRangeWithScores(sets[key[1]], 0, limit - 1)
             IN  [result |-> IF with_scores THEN items
                             ELSE [i \in 1..Len(items) |-> items[i].member],
                  raised |-> FALSE]

\* get_trending_item_rank(item_type, item_id, timeframe): the rank in a
\* one-element sequence, <<>> for None.
get_trending_item_rank(sets, item_type, item_id, timeframe, fault) ==
    LET key == trending_key(item_type, timeframe)
    IN  IF key = <<>> \/ fault # "none"
        THEN [result |-> <<>>, raised |-> FALSE]
        ELSE [result |-> ZRevRank(sets[key[1]], item_id), raised |-> FALSE]

\* One call of update_trending_item.
UpdateTrendingItem(item_type, item_id, score, timeframe, fault) ==
    /\ tHist.bumps < MaxBumps
    /\ LET r == update_trending_item(trending, tTtl, item_type, item_id, score,
                                     timeframe, fault)
           key == trending_key(item_type, timeframe)
       IN  /\ trending' = r.sets
           /\ tTtl' = r.ttls
           /\ tLast' = [op |-> "bump", item_type |-> item_type, timeframe |-> timeframe,
                        item_id |-> item_id, score |-> score,
                        failed |-> IF key = <<>> THEN {} ELSE r.failed,
                        ret |-> r.ret, raised |-> r.raised,
                        modified |-> r.sets # trending]
           /\ tHist' = [tHist EXCEPT
                   !.bumps = @ + 1,
                   !.sums = IF key = <<>> THEN @
                            ELSE [@ EXCEPT ![key[1]][item_id] = @ + score],
                   !.age = IF key = <<>> THEN @
                           ELSE [@ EXCEPT ![key[1]] = IF r.ret THEN 0 ELSE -1]]
    /\ UNCHANGED <<auxVars, rlVars, actVars, alertVars, metricVars>>

\* One call of get_trending_items.
GetTrendingItems(item_type, timeframe, limit, with_scores, fault) ==
    /\ LET r == get_trending_items(trending, item_type, timeframe, limit, with_scores, fault)
           key == trending_key(item_type, timeframe)
       IN  tLast' = [op |-> "top", item_type |-> item_type, timeframe |-> timeframe,
                     limit |-> limit, with_scores |-> with_scores,
                     failed |-> IF key = <<>> \/ fault = "none" THEN {} ELSE {fault},
                     result |-> r.result, raised |-> r.raised, modified |-> FALSE]
    /\ UNCHANGED <<auxVars, trending, tTtl, tHist, rlVars, actVars, alertVars, metricVars>>

\* One call of get_trending_item_rank.
GetTrendingItemRank(item_type, item_id, timeframe, fault) ==
    /\ LET r == get_trending_item_rank(trending, item_type, item_id, timeframe, fault)
           key == trending_key(item_type, timeframe)
       IN  tLast' = [op |-> "rank", item_type |-> item_type, timeframe |-> timeframe,
                     item_id |-> item_id,
                     failed |-> IF key = <<>> \/ fault = "none" THEN {} ELSE {fault},
                     result |-> r.result, raised |-> r.raised, modified |-> FALSE]
    /\ UNCHANGED <<auxVars, trending, tTtl, tHist, rlVars, actVars, alertVars, metricVars>>

\* Time passes: every key whose TTL runs out is deleted.  The age of a key
\* (the time since its last bump, if that bump succeeded) stops growing at
\* the TTL value of its timeframe.
TrendElapse(seconds, max_ticks) ==
    /\ tHist.ticks < max_ticks
    /\ LET gone == {k \in TrendKeys : tTtl[k] > 0 /\ tTtl[k] <= seconds}
       IN  /\ trending' = [k \in TrendKeys |-> IF k \in gone THEN {} ELSE trending[k]]
           /\ tTtl' = [k \in TrendKeys |->
                          IF k \in gone THEN KEY_ABSENT
                          ELSE IF tTtl[k] > 0 THEN tTtl[k] - seconds ELSE tTtl[k]]
           /\ tHist' = [tHist EXCEPT
                   !.ticks = @ + 1,
                   !.sums = [k \in TrendKeys |->
                                IF k \in gone THEN [m \in Items |-> 0] ELSE @[k]],
                   !.age = [k \in TrendKeys |->
                               IF @[k] < 0 THEN @[k]
                               ELSE Min(@[k] + seconds, for_timeframe(k[2]))]]
    /\ tLast' = NoCall
    /\ UNCHANGED <<auxVars, rlVars, actVars, alertVars, metricVars>>

\* An hour passes.
TrendTick == TrendElapse(HOUR_DATA, MaxTrendTicks)

\* Items are bumped and the sets are read while they expire; the item type
\* may be unknown.
TrendNext ==
    \/ \E item_type \in {"topics", UNKNOWN_TYPE}, item_id \in Items,
          score \in Scores, timeframe \in ShortFrames, fault \in BumpFaults :
           UpdateTrendingItem(item_type, item_id, score, timeframe, fault)
    \/ \E item_type \in {"topics", "hashtags", UNKNOWN_TYPE}, timeframe \in ShortFrames,
          limit \in TopLimits, with_scores \in BOOLEAN :
           GetTrendingItems(item_type, timeframe, limit, with_scores, "none")
    \/ \E item_id \in Items, timeframe \in ShortFrames :
           GetTrendingItemRank(UNKNOWN_TYPE, item_id, timeframe, "none")
    \/ TrendTick

SpecTrend == Init /\ [][TrendNext]_vars

\* Items of known types are bumped and ranks are read while the sets expire.
TrendRankNext ==
    \/ \E item_id \in Items, score \in Scores, timeframe \in ShortFrames,
          fault \in BumpFaults :
           UpdateTrendingItem("topics", item_id, score, timeframe, fault)
    \/ \E item_type \in {"topics", "entities"}, item_id \in Items,
          timeframe \in ShortFrames :
           GetTrendingItemRank(item_type, item_id, timeframe, "none")
    \/ TrendTick

SpecTrendRank == Init /\ [][TrendRankNext]_vars

\* Longest run of clock steps while the TTLs of the trending sets are watched.
MaxTtlTicks == 2

\* The clock steps watched: one second, or up to the last second before a
\* key with an expiry is deleted.
ElapseSteps == {1} \cup {tTtl[k] - 1 : k \in {j \in TrendKeys : tTtl[j] > 1}}

\* Topics are bumped in every timeframe while time passes.
TrendTtlNext ==
    \/ \E item_id \in {"a", "b"}, timeframe \in TimeFrames, fault \in BumpFaults :
           UpdateTrendingItem("topics", item_id, 1, timeframe, fault)
    \/ \E seconds \in ElapseSteps : TrendElapse(seconds, MaxTtlTicks)

SpecTrendTtl == Init /\ [][TrendTtlNext]_vars

(***************************************************************************)
(* Claims about the rate limiter (checked under SpecRL)                    *)
(***************************************************************************)
\* The calls of the current window were made with one limit and no command failed.
CleanWindow == rlWin.clean /\ rlWin.limit # 0

\* C1: rate limiter boundary.  For sequential checks of one key inside one
\* window, all with the same limit L >= 1 and with no store error, call number
\* n <= L returns allowed = TRUE with currentCount = n, every later call returns
\* allowed = FALSE with currentCount = L, and the stored counter never exceeds L.
C1_Boundary ==
    CleanWindow =>
        /\ rlCount <= rlWin.limit
        /\ rlLast.op = "check" =>
              IF rlWin.calls <= rlWin.limit
              THEN rlLast.allowed /\ rlLast.count = rlWin.calls
              ELSE ~rlLast.allowed /\ rlLast.count = rlWin.limit

\* Witness of C1: the call after the limit-th call of a window was denied
\* with the count left at the limit.
C1_Witness ==
    /\ CleanWindow
    /\ rlLast.op = "check"
    /\ rlWin.limit = MaxLimit
    /\ rlWin.calls = MaxLimit + 1
    /\ ~rlLast.allowed
    /\ rlLast.count = MaxLimit
    /\ rlCount = MaxLimit

\* C2: fixed window.  The expiry set by the first allowed check of a window is
\* not changed by a later allowed check of the same window, so that the key's
\* remaining time to live is always windowSeconds minus the time since the
\* first request of the window.
C2_FixedWindow ==
    /\ (/\ CleanWindow
        /\ rlLast.op = "check"
        /\ rlLast.allowed
        /\ rlLast.failed = {}
        /\ rlLast.preTtl > 0
        /\ rlWin.window = rlLast.window)
       => rlTtl = rlLast.preTtl
    /\ (CleanWindow /\ rlWin.window # 0 /\ rlTtl > 0)
       => rlTtl = rlWin.window - rlWin.age

E1 == ACTIVITY_ENTITY("e1")

\* The scopes the last add_activity call was asked to push to.
AskedScopes ==
    {sc \in {"entity", "user", "global"} :
        \/ sc = "entity" /\ actLast.entity_id # ""
        \/ sc = "user" /\ actLast.user_id # ""
        \/ sc = "global" /\ actLast.add_to_global}

AskedKey(sc) ==
    IF sc = "entity" THEN <<"entity", actLast.entity_id>>
    ELSE IF sc = "user" THEN <<"user", actLast.user_id>>
    ELSE <<"global", "">>

\* C4 (SpecStream): stream soft bound.  For sequential adds to one stream, a
\* completed add whose post-push length exceeds MAX_LENGTH x TRIM_THRESHOLD
\* leaves the list with exactly MAX_LENGTH elements, after every completed add
\* the length is at most floor(MAX_LENGTH x TRIM_THRESHOLD), and right after
\* the first floor(MAX_LENGTH x TRIM_THRESHOLD) + 1 pushes the length (what
\* count returns) is at most MAX_LENGTH.
C4_SoftBound ==
    /\ (actLast.op = "add" /\ actLast.result["entity"] # EMPTY_ID) =>
          /\ LLen(streams[E1]) <= SoftBound
          /\ (LLen(actLast.pre[E1]) + 1) * TRIM_THRESHOLD_DEN
                    > MAX_STREAM_LENGTH * TRIM_THRESHOLD_NUM
                => LLen(streams[E1]) = MAX_STREAM_LENGTH
    /\ (actHist.clean /\ actHist.pushes[E1] = SoftBound + 1)
          => LLen(streams[E1]) <= MAX_STREAM_LENGTH

\* Witness of C4: the push number floor(MAX_LENGTH x TRIM_THRESHOLD) + 1 has
\* completed and trimmed the list from the soft bound down to MAX_LENGTH.
C4_Witness ==
    /\ actLast.op = "add"
    /\ actLast.result["entity"] # EMPTY_ID
    /\ actHist.clean
    /\ actHist.pushes[E1] = SoftBound + 1
    /\ LLen(actLast.pre[E1]) = SoftBound
    /\ LLen(streams[E1]) = MAX_STREAM_LENGTH
    /\ Head(streams[E1]).id = actLast.result["entity"]

\* The elements of list at the 0-based positions start .. start + limit - 1.
Positions(list, start, limit) ==
    [i \in 1..Max(0, Min(Len(list), start + limit) - start) |-> list[start + i]]

\* C5 (SpecRange): range(scope, start, limit, typeFilter) returns, in list
\* order (most recently added first), exactly the records at list positions
\* [start, start + limit) whose type is typeFilter (all of them without a
\* filter); records outside those positions are never returned.
C5_RangeWindow ==
    actLast.op = "range" =>
        actLast.result =
            SelectSeq(Positions(streams[actLast.key], actLast.start, actLast.limit),
                      LAMBDA a : actLast.activity_type = ""
                                    \/ a.type = actLast.activity_type)

\* C6 (SpecConc): deleteById(recordId, scope) removes at most one element of
\* the list and never removes a record whose id differs from recordId, for
\* every interleaving of its store commands (range read, index read,
\* remove-by-value) with concurrent add or delete calls on the same stream.
C6_DeleteOnlyTarget ==
    \A p \in Procs :
        (procs[p].pc = "idle" /\ procs[p].last.op = "delete") =>
            /\ Len(procs[p].last.removed) <= 1
            /\ \A i \in 1..Len(procs[p].last.removed) :
                  procs[p].last.removed[i].id = procs[p].last.activity_id

\* C7 (SpecStream): findById(recordId, scope) returns the record with that id
\* whenever one is an element of the scope's list, at any position the soft
\* bound allows (up to floor(MAX_LENGTH x TRIM_THRESHOLD) elements), and
\* absent only when no element has that id.
C7_FindsPresent ==
    (actLast.op = "find" /\ Len(streams[actLast.key]) <= SoftBound) =>
        LET list == streams[actLast.key]
            there == {i \in 1..Len(list) : list[i].id = actLast.activity_id}
        IN  /\ there # {} =>
                  /\ actLast.result # <<>>
                  /\ actLast.result[1].id = actLast.activity_id
            /\ there = {} => actLast.result = <<>>

\* C8 (SpecFan): fan-out.  One add call returns a map whose keys are exactly
\* the requested scopes, leaves the list of every scope that was not
\* requested unchanged, and pushes exactly one record, carrying the id
\* returned for the scope, to the head of the list of each requested scope
\* whose store commands do not fail.
C8_FanOut ==
    actLast.op = "add" =>
        /\ DOMAIN actLast.result = AskedScopes
        /\ \A k \in StreamKeys :
              (\A sc \in AskedScopes : AskedKey(sc) # k)
                  => streams[k] = actLast.pre[k]
        /\ \A sc \in AskedScopes :
              actLast.faults[sc] = "none" =>
                  /\ actLast.result[sc] # EMPTY_ID
                  /\ streams[AskedKey(sc)] =
                        LET pushed == <<[id |-> actLast.result[sc], type |-> actLast.type]>>
                                          \o actLast.pre[AskedKey(sc)]
                        IN  IF Len(pushed) * TRIM_THRESHOLD_DEN
                                  > MAX_STREAM_LENGTH * TRIM_THRESHOLD_NUM
                            THEN SubSeq(pushed, 1, MAX_STREAM_LENGTH)
                            ELSE pushed

\* Witness of C8: an add to entity e1 and the global stream, without user and
\* onto non-empty lists, has pushed one record to each and left the stream
\* of entity e2, which is not empty, as it was.
C8_Witness ==
    /\ actLast.op = "add"
    /\ actLast.entity_id = "e1"
    /\ actLast.user_id = ""
    /\ actLast.add_to_global
    /\ actLast.faults = NoFaults
    /\ actLast.pre[ACTIVITY_ENTITY("e2")] # <<>>
    /\ actLast.pre[ACTIVITY_GLOBAL] # <<>>
    /\ Len(streams[ACTIVITY_GLOBAL]) = Len(actLast.pre[ACTIVITY_GLOBAL]) + 1
    /\ Len(streams[E1]) = Len(actLast.pre[E1]) + 1
    /\ streams[ACTIVITY_ENTITY("e2")] = actLast.pre[ACTIVITY_ENTITY("e2")]
    /\ Head(streams[E1]).id # Head(streams[ACTIVITY_GLOBAL]).id

\* C9 (SpecStream): activity write failure is a no-op.  Whenever add reports
\* an empty id for a scope because one of its store commands (push, length
\* read or trim) failed, that scope's list is exactly as it was before the call.
C9_FailedAddNoOp ==
    actLast.op = "add" =>
        \A sc \in DOMAIN actLast.result :
            actLast.result[sc] = EMPTY_ID
                => streams[AskedKey(sc)] = actLast.pre[AskedKey(sc)]

(***************************************************************************)
(* Claims about the alert queue (checked under SpecAlert)                  *)
(***************************************************************************)
\* Alert a has the higher priority and was raised at most 3600 seconds
\* before alert b (or after it).
Dominates(a, b) ==
    /\ AlertPriority(a.priority) > AlertPriority(b.priority)
    /\ b.id - a.id <= 3600

\* C10: alert priority dominance.  For any two alerts of one entity's queue
\* with different priorities, if the higher-priority one was raised at most
\* 3600 seconds before the other, its score is strictly greater and pending
\* returns it first: whenever the lower one is returned, the higher one is
\* returned before it.
C10_PriorityDominance ==
    /\ \A e, f \in alerts :
          Dominates(e.member, f.member) => e.score > f.score
    /\ alLast.op = "pending" =>
          \A e, f \in alerts :
              (/\ Dominates(e.member, f.member)
               /\ \E j \in 1..Len(alLast.result) : alLast.result[j] = f.member)
                  => \E i, j \in 1..Len(alLast.result) :
                        /\ i < j
                        /\ alLast.result[i] = e.member
                        /\ alLast.result[j] = f.member

\* Witness of C10: pending has returned a CRITICAL alert ahead of a LOW alert
\* raised 3600 seconds after it.
C10_Witness ==
    /\ alLast.op = "pending"
    /\ Len(alLast.result) = 2
    /\ alLast.result[1].priority = "CRITICAL"
    /\ alLast.result[2].priority = "LOW"
    /\ alLast.result[2].id = alLast.result[1].id + 3600

\* C11 (SpecAlert): scoring epoch.  With score = unix time + priority weight x
\* 10000, an alert of the lowest priority (LOW) raised at time T has a
\* strictly higher score than an alert of the highest priority (CRITICAL)
\* raised a full scoring epoch of one day (86400 s) earlier, at T - 86400.
C11_ScoringEpoch ==
    \A e, f \in alerts :
        (/\ e.member.priority = "LOW"
         /\ f.member.priority = "CRITICAL"
         /\ e.member.id = f.member.id + 86400)
            => e.score > f.score

(***************************************************************************)
(* Claims about the alert life cycle (checked under SpecAlertOps)          *)
(***************************************************************************)
\* C12: alert life cycle.  An alert that is in the entity's sorted set stays
\* in it through every step (raising other alerts, pending reads,
\* acknowledging other ids, passage of time) that is not an acknowledge of its
\* own id, and right after an acknowledge of an id that ran without error no
\* alert with that id is in the set.
C12_LifeCycle ==
    [][/\ \A e \in alerts :
             e \notin alerts' =>
                 (alLast'.op = "acknowledge" /\ alLast'.alert_id = e.member.id)
       /\ (alLast'.op = "acknowledge" /\ ~alLast'.raised) =>
             \A e \in alerts' : e.member.id # alLast'.alert_id]_vars

\* How many members of the set come before e from the highest score down.
AlertsAbove(e) == Cardinality({f \in alerts : EntryBefore(e, f)})

\* The score of the member m of the set.
ScoreOf(m) == (CHOOSE e \in alerts : e.member = m).score

\* C13: pending(entityId, limit, minPriority) returns, in descending score
\* order, exactly those alerts among the limit highest-scored members of the
\* set whose priority weight is >= minPriority's weight: the filter is
\* applied after the limit cut.
C13_PendingLimitThenFilter ==
    (alLast.op = "pending" /\ alLast.failed = {}) =>
        LET result == alLast.result
            expected == {e.member : e \in {f \in alerts :
                            /\ AlertsAbove(f) < alLast.limit
                            /\ AtLeastPriority(f.member, alLast.min_priority)}}
        IN  /\ {result[i] : i \in 1..Len(result)} = expected
            /\ Len(result) = Cardinality(expected)
            /\ \A i, j \in 1..Len(result) :
                  i < j => ScoreOf(result[i]) >= ScoreOf(result[j])

\* C14: alert channel fail-soft.  When a store command fails during raise,
\* pending or acknowledge, the operation raises no error to its caller and
\* returns its safe default: the empty alert id, the empty sequence, false.
C14_AlertFailSoft ==
    (alLast.op \in {"raise", "pending", "acknowledge"} /\ alLast.failed # {}) =>
        /\ ~alLast.raised
        /\ alLast.op = "raise" => alLast.alert_id = <<>>
        /\ alLast.op = "pending" => alLast.result = <<>>
        /\ alLast.op = "acknowledge" => ~alLast.removed

(***************************************************************************)
(* Claims about the entity metrics hash                                    *)
(***************************************************************************)
\* No increment call is under way.
AllIdle == \A p \in MProcs : mProcs[p].pc = "idle"

\* C15 (SpecMetricsConc): no lost increments.  For increment calls on one
\* entity, sequential or interleaved command by command, with no expiry,
\* update or store error: once all calls are over, the snapshot value of every
\* field incremented equals the sum of all deltas, and each call has returned
\* for each of its fields the value the field had right after its own increment.
C15_NoLostIncrements ==
    /\ (AllIdle /\ mLast.op = "get") =>
          \A f \in CounterFields :
              mSum.sum[f] > 0 =>
                  /\ f \in DOMAIN mLast.result
                  /\ mLast.result[f] = PyInt(mSum.sum[f])
    /\ \A p \in MProcs :
          (mProcs[p].pc = "idle" /\ mProcs[p].last.op = "increment") =>
              \A f \in DOMAIN mProcs[p].last.results :
                  /\ mProcs[p].last.results[f] <= mSum.sum[f]
                  /\ PyInt(mProcs[p].last.results[f]) = parse_value(mProcs[p].last.after[f])

\* Witness of C15: two calls that each incremented both counters have
\* interleaved (m1 was first on posts_count, m2 first on total_likes), and a
\* snapshot taken after both shows the sum of the deltas.
C15_Witness ==
    /\ AllIdle
    /\ mLast.op = "get"
    /\ mProcs["m1"].last.op = "increment"
    /\ mProcs["m2"].last.op = "increment"
    /\ DOMAIN mProcs["m1"].last.results = CounterFields
    /\ DOMAIN mProcs["m2"].last.results = CounterFields
    /\ mProcs["m1"].last.results["posts_count"] < mProcs["m2"].last.results["posts_count"]
    /\ mProcs["m1"].last.results["total_likes"] > mProcs["m2"].last.results["total_likes"]
    /\ mLast.result["posts_count"] = PyInt(mSum.sum["posts_count"])
    /\ mSum.sum["posts_count"] = mProcs["m2"].last.results["posts_count"]

\* C16 (SpecMetrics): every successful update(entityId, fields, ttl) call, for
\* every fields map the caller can supply, leaves the hash's last_updated
\* field equal to the time of that call.
C16_UpdateStampsTime ==
    (mLast.op = "update" /\ mLast.ret) =>
        /\ LAST_UPDATED \in DOMAIN metrics
        /\ metrics[LAST_UPDATED] = IsoFormat(mLast.time)

\* C17 (SpecMetrics): snapshot(entityId, fields) returns a map whose keys are
\* exactly the requested fields that are present in the hash; a requested
\* field that is absent from the hash is not a key of the result.
C17_SnapshotOmitsAbsent ==
    (mLast.op = "get" /\ mLast.failed = {} /\ mLast.fields # {}) =>
        DOMAIN mLast.result = mLast.fields \cap DOMAIN mLast.pre

(***************************************************************************)
(* Claims about the trending sets                                          *)
(***************************************************************************)
\* The key the last trending call named; its item type is a known one.
LastKey == <<tLast.item_type, tLast.timeframe>>

KnownType == tLast.item_type \in TrendTypes

\* C18 (SpecTrend): trending ordering.  Each member's score is the sum of the
\* deltas bumped for it since the set was last absent, and top(itemType,
\* timeframe, limit) returns min(limit, number of members) members in
\* non-increasing score order such that no member left out has a strictly
\* higher score than a member returned.
C18_TopOrdering ==
    /\ \A k \in TrendKeys :
          /\ \A e \in trending[k] : e.score = tHist.sums[k][e.member]
          /\ \A m \in Items :
                tHist.sums[k][m] > 0 => \E e \in trending[k] : e.member = m
    /\ (tLast.op = "top" /\ KnownType) =>
          LET zset == trending[LastKey]
              result == tLast.result
              member(i) == IF tLast.with_scores THEN result[i].member ELSE result[i]
              returned == {member(i) : i \in 1..Len(result)}
          IN  /\ Len(result) = Min(tLast.limit, Cardinality(zset))
              /\ Cardinality(returned) = Len(result)
              /\ \A i \in 1..Len(result) :
                    /\ \E e \in zset : e.member = member(i)
                    /\ tLast.with_scores => result[i].score = ZScore(zset, member(i))
              /\ \A i, j \in 1..Len(result) :
                    i < j => ZScore(zset, member(i)) >= ZScore(zset, member(j))
              /\ \A e \in zset :
                    e.member \notin returned =>
                        \A m \in returned : e.score <= ZScore(zset, m)

\* C19 (SpecTrendRank): rank(itemType, timeframe, member) is absent for every
\* member that was never bumped in that set or whose set has expired, and for
\* a member with a score it is the 0-based index of that member in the full
\* descending-order result of top for the same set.
C19_RankIsTopIndex ==
    (tLast.op = "rank" /\ KnownType) =>
        LET zset == trending[LastKey]
            full == get_trending_items(trending, tLast.item_type, tLast.timeframe,
                                       Cardinality(zset) + 1, FALSE, "none").result
        IN  IF tHist.sums[LastKey][tLast.item_id] = 0
            THEN tLast.result = <<>>
            ELSE /\ Len(tLast.result) = 1
                 /\ tLast.result[1] \in 0..(Len(full) - 1)
                 /\ full[tLast.result[1] + 1] = tLast.item_id

\* Witness of C19: two members are tied and the rank read is 1, that of the
\* one that comes second in the result of top.
C19_Witness ==
    /\ tLast.op = "rank"
    /\ KnownType
    /\ tLast.result = <<1>>
    /\ Cardinality(trending[LastKey]) = 2
    /\ \A e, f \in trending[LastKey] : e.score = f.score
    /\ ZRevRangeWithScores(trending[LastKey], 0, 0 - 1)[2].member = tLast.item_id

\* C20 (SpecTrend): an unknown item type is rejected visibly.  bump, top and
\* rank called with an itemType outside {topics, hashtags, entities} let the
\* error reach the caller instead of returning the fail-soft value, and they
\* modify no set.
C20_UnknownTypeRejected ==
    (tLast.op \in {"bump", "top", "rank"} /\ ~KnownType) =>
        /\ tLast.raised
        /\ ~tLast.modified

(***************************************************************************)
(* Topic velocity (services/redis_service.py, TrendingService)             *)
(* The floats of the code are modelled by exact fractions <<num, den>>     *)
(* with den > 0, kept in lowest terms.                                     *)
(***************************************************************************)

\* Longest list of timeframes passed to calculate_topic_velocity.
MaxTimeframes == 3
\* Largest score stored for the topic in a trending set.
MaxVelScore == 3

RECURSIVE Gcd(_, _)
Gcd(a, b) == IF b = 0 THEN a ELSE Gcd(b, a % b)

Abs(n) == IF n < 0 THEN -n ELSE n

\* The fraction num/den in lowest terms.
Frac(num, den) ==
    LET g == Gcd(Abs(num), den)
    IN  <<num \div g, den \div g>>

FracAdd(x, y) == Frac(x[1] * y[2] + y[1] * x[2], x[2] * y[2])
FracMul(x, y) == Frac(x[1] * y[1], x[2] * y[2])
\* x / y for y > 0.
FracDiv(x, y) == Frac(x[1] * y[2], x[2] * y[1])
FracOfInt(n) == <<n, 1>>

\* What ZSCORE answers for the topic: <<>> (nil) or <<score>>.
ScoreReplies == {<<>>} \cup {<<n>> : n \in 0..MaxVelScore}

\* The replies for the timeframes of one call, in the order of the list.
ReplyLists == UNION {[1..n -> ScoreReplies] : n \in 0..MaxTimeframes}

\* scores.append(float(score) if score is not None else 0.0)
ScoreOfReply(reply) == IF reply = <<>> THEN 0 ELSE reply[1]

\* velocity of one pair: (short_term / long_term) - 1, or short_term.
PairVelocity(short_term, long_term) ==
    IF long_term > 0
    THEN FracAdd(Frac(short_term, long_term), FracOfInt(-1))
    ELSE FracOfInt(short_term)

WeightUniform(i) == FracOfInt(1)

\* weight = 1.0 / (i + 1), i counted from 0.
Weight(i) == Frac(1, i + 1)

\* The loop over range(len(scores) - 1) from index i on; acc is
\* <<total_velocity, weight_sum>>.
RECURSIVE VelocityLoop(_, _, _)
VelocityLoop(scores, i, acc) ==
    IF i >= Len(scores) - 1 THEN acc
    ELSE LET short_term == scores[i + 1]
             long_term == scores[i + 2]
         IN  IF short_term = 0 /\ long_term = 0
             THEN VelocityLoop(scores, i + 1, acc)
             ELSE VelocityLoop(scores, i + 1,
                      <<FracAdd(acc[1], FracMul(PairVelocity(short_term, long_term),
                                                Weight(i))),
                        FracAdd(acc[2], Weight(i))>>)

\* calculate_topic_velocity, given the ZSCORE reply for each timeframe.
calculate_topic_velocity(replies) ==
    IF Len(replies) < 2 THEN FracOfInt(0)
    ELSE LET scores == [j \in 1..Len(replies) |-> ScoreOfReply(replies[j])]
             acc == VelocityLoop(scores, 0, <<FracOfInt(0), FracOfInt(0)>>)
         IN  IF acc[2][1] > 0 THEN FracDiv(acc[1], acc[2]) ELSE FracOfInt(0)

\* One call of calculate_topic_velocity.
CalculateTopicVelocity(replies) ==
    /\ velLast' = [op |-> "velocity", replies |-> replies,
                   result |-> calculate_topic_velocity(replies)]
    /\ UNCHANGED <<boardVars, cacheVars, rlProcs, ackProcs,
                   rlVars, actVars, alertVars, metricVars, trendVars>>

VelocityNext ==
    \E replies \in ReplyLists : CalculateTopicVelocity(replies)

SpecVelocity == Init /\ [][VelocityNext]_vars

(***************************************************************************)
(* C21: velocity formula                                                   *)
(***************************************************************************)

\* The scores s0..sn of the last velocity call (an absent score is 0).
LastScores == [j \in 1..Len(velLast.replies) |-> ScoreOfReply(velLast.replies[j])]

\* v_i of the pair (s_i, s_(i+1)), i counted from 0.
PairV(s, i) ==
    IF s[i + 2] > 0 THEN <<s[i + 1] - s[i + 2], s[i + 2]>> ELSE <<s[i + 1], 1>>

\* x = y for two fractions.
FracEq(x, y) == x[1] * y[2] = y[1] * x[2]

\* Sum of w_i * v_i over the pairs of P, as a fraction (w_i = 1/(i+1)).
RECURSIVE WeightedSum(_, _)
WeightedSum(s, P) ==
    IF P = {} THEN <<0, 1>>
    ELSE LET i == CHOOSE j \in P : TRUE
             rest == WeightedSum(s, P \ {i})
             v == PairV(s, i)
         IN  <<v[1] * rest[2] + rest[1] * v[2] * (i + 1), v[2] * (i + 1) * rest[2]>>

\* Sum of w_i over the pairs of P, as a fraction.
RECURSIVE WeightSum(_)
WeightSum(P) ==
    IF P = {} THEN <<0, 1>>
    ELSE LET i == CHOOSE j \in P : TRUE
             rest == WeightSum(P \ {i})
         IN  <<rest[2] + rest[1] * (i + 1), (i + 1) * rest[2]>>

\* (sum of w_i * v_i) / (sum of w_i) over the pairs of P.
WeightedAverage(s, P) ==
    LET top == WeightedSum(s, P)
        bottom == WeightSum(P)
    IN  <<top[1] * bottom[2], top[2] * bottom[1]>>

AllPairs(s) == 0..(Len(s) - 2)

LivePairs(s) == {i \in AllPairs(s) : ~(s[i + 1] = 0 /\ s[i + 2] = 0)}

\* C21 as stated: the velocity is the weighted average over every adjacent
\* pair of timeframes, and 0 for fewer than two timeframes or all-zero scores.
C21_EveryPair ==
    velLast.op = "velocity" =>
        LET s == LastScores
        IN  IF Len(s) < 2 \/ \A j \in 1..Len(s) : s[j] = 0
            THEN velLast.result = <<0, 1>>
            ELSE FracEq(velLast.result, WeightedAverage(s, AllPairs(s)))

\* C21 (amended): the velocity is the weighted average, with weights
\* 1/(i+1), over the adjacent pairs whose two scores are not both zero, and 0
\* for fewer than two timeframes or when every score is zero.
C21_Velocity ==
    velLast.op = "velocity" =>
        LET s == LastScores
        IN  IF Len(s) < 2 \/ LivePairs(s) = {}
            THEN velLast.result = <<0, 1>>
            ELSE FracEq(velLast.result, WeightedAverage(s, LivePairs(s)))

\* A call over three timeframes in which one pair is skipped and the other
\* pairs give a velocity that is not zero.
C21_Witness ==
    /\ velLast.op = "velocity"
    /\ Len(velLast.replies) = 3
    /\ LivePairs(LastScores) # AllPairs(LastScores)
    /\ LivePairs(LastScores) # {}
    /\ velLast.result[1] # 0

(***************************************************************************)
(* C22: TTL of a trending set (checked under SpecTrendTtl)                 *)
(***************************************************************************)

\* The TTL value the claim gives for each timeframe.
ClaimedTtl(timeframe) ==
    CASE timeframe = "1h" -> 3600
      [] timeframe = "6h" -> 21600
      [] timeframe = "1d" -> 86400
      [] timeframe = "1w" -> 604800
      [] timeframe = "1m" -> 2592000

\* C22: a successful bump sets the TTL of its set to the value of the
\* timeframe; as long as less than that time has passed since the last bump
\* the set is there with all it was given, and once that time has passed with
\* no bump in between the whole set is gone.
C22_TrendingTtl ==
    /\ (tLast.op = "bump" /\ tLast.ret) => tTtl[LastKey] = ClaimedTtl(tLast.timeframe)
    /\ \A k \in TrendKeys :
           tHist.age[k] >= 0 =>
               IF tHist.age[k] < ClaimedTtl(k[2])
               THEN /\ tTtl[k] = ClaimedTtl(k[2]) - tHist.age[k]
                    /\ trending[k] # {}
                    /\ \A m \in Items : ZScore(trending[k], m) = tHist.sums[k][m]
               ELSE trending[k] = {} /\ tTtl[k] = KEY_ABSENT

\* An hour set and a six-hour set bumped at the same time: one second before
\* the hour is over both are there, at the hour the hour set is gone and the
\* six-hour set is there.
C22_Witness ==
    LET h == <<"topics", "1h">>
        s == <<"topics", "6h">>
    IN  /\ tHist.age[h] = 3600
        /\ trending[h] = {}
        /\ tHist.age[s] = 3600
        /\ trending[s] # {}

(***************************************************************************)
(* Leaderboard (services/redis/metrics_service.py)                         *)
(***************************************************************************)

\* Most update_leaderboard calls made.
MaxBoardCalls == 3

LeaderboardFaults == {"none", "zadd", "expire"}

LeaderboardWriteIncr(zset, entry_id, score) == ZIncrBy(zset, entry_id, score)

\* redis.zadd(leaderboard_key, {entry_id: score})
LeaderboardWrite(zset, entry_id, score) == ZAdd(zset, entry_id, score)

\* redis.zscore(key, member): <<>> (nil) or <<score>>.
ZScoreReply(zset, member) ==
    IF \E e \in zset : e.member = member THEN <<ZScore(zset, member)>> ELSE <<>>

\* update_leaderboard(leaderboard_key, entry_id, score, ttl): the set and TTL
\* left and the value returned.
update_leaderboard(zset, ttl_now, entry_id, score, ttl, fault) ==
    IF fault = "zadd"
    THEN [zset |-> zset, ttl |-> ttl_now, ret |-> FALSE]
    ELSE LET written == LeaderboardWrite(zset, entry_id, score)
             kept == IF ttl_now = KEY_ABSENT THEN KEY_NO_EXPIRY ELSE ttl_now
         IN  IF ttl = <<>>
             THEN [zset |-> written, ttl |-> kept, ret |-> TRUE]
             ELSE IF fault = "expire"
                  THEN [zset |-> written, ttl |-> kept, ret |-> FALSE]
                  ELSE [zset |-> written, ttl |-> ttl[1], ret |-> TRUE]

\* get_leaderboard_score(leaderboard_key, entry_id): <<>> for None.
get_leaderboard_score(zset, entry_id, fault) ==
    IF fault = "none" THEN ZScoreReply(zset, entry_id) ELSE <<>>

\* One call of update_leaderboard.
UpdateLeaderboard(entry_id, score, ttl, fault) ==
    /\ lbHist.calls < MaxBoardCalls
    /\ LET r == update_leaderboard(boards, bTtl, entry_id, score, ttl, fault)
       IN  /\ boards' = r.zset
           /\ bTtl' = r.ttl
           /\ lbLast' = [op |-> "update", entry_id |-> entry_id, score |-> score,
                         ret |-> r.ret]
           /\ lbHist' = [lbHist EXCEPT
                   !.calls = @ + 1,
                   !.written[entry_id] = IF fault = "zadd" THEN @ ELSE Append(@, score)]
    /\ UNCHANGED <<velVars, cacheVars, rlProcs, ackProcs,
                   rlVars, actVars, alertVars, metricVars, trendVars>>

\* One call of get_leaderboard_score.
GetLeaderboardScore(entry_id, fault) ==
    /\ lbLast' = [op |-> "score", entry_id |-> entry_id, fault |-> fault,
                  result |-> get_leaderboard_score(boards, entry_id, fault)]
    /\ UNCHANGED <<boards, bTtl, lbHist, velVars, cacheVars, rlProcs, ackProcs,
                   rlVars, actVars, alertVars, metricVars, trendVars>>

\* An hour passes: a leaderboard key with an expiry is deleted.
LeaderboardTick ==
    /\ bTtl > 0
    /\ boards' = {}
    /\ bTtl' = KEY_ABSENT
    /\ lbLast' = NoCall
    /\ lbHist' = [lbHist EXCEPT !.written = [e \in Items |-> <<>>]]
    /\ UNCHANGED <<velVars, cacheVars, rlProcs, ackProcs,
                   rlVars, actVars, alertVars, metricVars, trendVars>>

LeaderboardNext ==
    \/ \E entry_id \in Items, score \in Scores, ttl \in TtlChoices,
          fault \in LeaderboardFaults :
           UpdateLeaderboard(entry_id, score, ttl, fault)
    \/ \E entry_id \in Items, fault \in {"none", "zscore"} :
           GetLeaderboardScore(entry_id, fault)
    \/ LeaderboardTick

SpecLeaderboard == Init /\ [][LeaderboardNext]_vars

(***************************************************************************)
(* C23: leaderboard update and scoreOf (checked under SpecLeaderboard)     *)
(***************************************************************************)

RECURSIVE SeqSum(_)
SeqSum(q) == IF q = <<>> THEN 0 ELSE q[1] + SeqSum(Tail(q))

\* The scores written for the entry last read, since the key was last absent.
WrittenForLast == lbHist.written[lbLast.entry_id]

\* C23 as stated: scoreOf answers the sum of the scores the entry was updated
\* with, and nothing exactly for an entry never updated.
C23_ScoresAdd ==
    (lbLast.op = "score" /\ lbLast.fault = "none") =>
        lbLast.result = IF WrittenForLast = <<>> THEN <<>>
                        ELSE <<SeqSum(WrittenForLast)>>

\* C23 (amended): scoreOf answers the score of the last update of the entry,
\* and nothing exactly for an entry not updated since the key was last absent.
C23_LastScoreWins ==
    (lbLast.op = "score" /\ lbLast.fault = "none") =>
        lbLast.result = IF WrittenForLast = <<>> THEN <<>>
                        ELSE <<WrittenForLast[Len(WrittenForLast)]>>

\* The score of an entry updated with 2 and then with 1 is read.
C23_Witness ==
    /\ lbLast.op = "score"
    /\ lbLast.fault = "none"
    /\ WrittenForLast = <<2, 1>>
    /\ lbLast.result = <<1>>

(***************************************************************************)
(* Generic cache primitives (services/redis/cache_service.py)              *)
(* A Python value is a record: its kind, and its content in the field of   *)
(* that kind (s of a str, n of an int or bool, items of a list or dict).   *)
(***************************************************************************)

\* Most writes made through the cache primitives.
MaxCacheWrites == 2

CStr(s) == [kind |-> "str", s |-> s, n |-> 0, items |-> <<>>]
CInt(n) == [kind |-> "int", s |-> "", n |-> n, items |-> <<>>]
CBool(b) == [kind |-> "bool", s |-> "", n |-> IF b THEN 1 ELSE 0, items |-> <<>>]
CList(items) == [kind |-> "list", s |-> "", n |-> 0, items |-> items]
\* A dict is the sequence of its entries; an entry is a key and a value.
CEntry(key, value) == [kind |-> "entry", s |-> key, n |-> 0, items |-> <<value>>]
CDict(entries) == [kind |-> "dict", s |-> "", n |-> 0, items |-> entries]
CNone == [kind |-> "none", s |-> "", n |-> 0, items |-> <<>>]

\* json.dumps(value)
RECURSIVE json_dumps(_)
RECURSIVE JoinDumps(_)
JoinDumps(items) ==
    IF items = <<>> THEN ""
    ELSE IF Len(items) = 1 THEN json_dumps(items[1])
    ELSE json_dumps(items[1]) \o ", " \o JoinDumps(Tail(items))

json_dumps(value) ==
    CASE value.kind = "str" -> "\"" \o value.s \o "\""
      [] value.kind = "int" -> ToString(value.n)
      [] value.kind = "bool" -> IF value.n = 1 THEN "true" ELSE "false"
      [] value.kind = "list" -> "[" \o JoinDumps(value.items) \o "]"
      [] value.kind = "entry" -> "\"" \o value.s \o "\": " \o json_dumps(value.items[1])
      [] value.kind = "dict" -> "{" \o JoinDumps(value.items) \o "}"
      [] OTHER -> "null"

\* The values found inside the containers cached.
ElementValues == {CInt(1), CInt(2), CBool(TRUE), CBool(FALSE), CStr("x")}

\* The values json.loads can produce from the texts stored.
JsonDomain ==
    ElementValues
      \cup {CList(<<CInt(1), CInt(2)>>), CList(<<CStr("x")>>),
            CDict(<<CEntry("k", CInt(1))>>)}

\* json.loads(text): the value in a one-element sequence, <<>> where it
\* raises JSONDecodeError.
json_loads(text) ==
    IF \E v \in JsonDomain : json_dumps(v) = text
    THEN <<CHOOSE v \in JsonDomain : json_dumps(v) = text>>
    ELSE <<>>

\* The values handed to the primitives: those of JsonDomain, a plain string,
\* and the strings whose text is a JSON literal.
CacheValues ==
    JsonDomain \cup {CStr("hello")}
      \cup {CStr(json_dumps(v)) :
               v \in {CInt(1), CBool(TRUE), CList(<<CInt(1), CInt(2)>>),
                      CDict(<<CEntry("k", CInt(1))>>), CStr("x")}}

CacheFields == {"f", "g"}

\* try: json.loads(value); except JSONDecodeError: value
loads_or_text(text) ==
    LET loaded == json_loads(text)
    IN  IF loaded # <<>> THEN loaded[1] ELSE CStr(text)

\* The TTL a key has after a write with argument ttl (<<>> is None) that
\* leaves the expiry of an existing key alone when no ttl is given.
ExpireIfGiven(ttl_now, ttl) ==
    IF ttl # <<>> THEN ttl[1]
    ELSE IF ttl_now = KEY_ABSENT THEN KEY_NO_EXPIRY ELSE ttl_now

\* set_value(key, value, ttl): SET key text EX ttl.
set_value(c, value, ttl) ==
    LET text == IF value.kind # "str" THEN json_dumps(value) ELSE value.s
    IN  [cache |-> [c EXCEPT !.string = <<text>>,
                             !.ttl["string"] = IF ttl = <<>> THEN KEY_NO_EXPIRY ELSE ttl[1]],
         ret |-> TRUE]

\* get_value(key): default is None.
get_value(c) ==
    IF c.string = <<>> THEN CNone ELSE loads_or_text(c.string[1])

\* The text HSET stores for one value of the serialized map: a str as it is,
\* an int in decimal (the client encodes it).
HashText(value) ==
    CASE value.kind = "str" -> value.s
      [] value.kind = "int" -> ToString(value.n)
      [] OTHER -> json_dumps(value)

\* set_hash(key, hash_map, ttl): a bool is kept as it is by the isinstance
\* test and the client refuses to encode a bool (DataError), so the call
\* returns False with nothing written.
set_hash(c, hash_map, ttl) ==
    IF \E f \in DOMAIN hash_map : hash_map[f].kind = "bool"
    THEN [cache |-> c, ret |-> FALSE]
    ELSE [cache |-> [c EXCEPT
                       !.hash = HSet(@, [f \in DOMAIN hash_map |-> HashText(hash_map[f])]),
                       !.ttl["hash"] = ExpireIfGiven(@, ttl)],
          ret |-> TRUE]

\* get_hash_field(key, field): default is None.
get_hash_field(c, field) ==
    IF field \in DOMAIN c.hash THEN loads_or_text(c.hash[field]) ELSE CNone

\* get_hash_all(key)
get_hash_all(c) == [f \in DOMAIN c.hash |-> loads_or_text(c.hash[f])]

\* The items add_to_list pushes, in the order of the call: the elements of a
\* list argument, or the one argument.
ItemsOf(items) == IF items.kind = "list" THEN items.items ELSE <<items>>

\* json.dumps(item) if not isinstance(item, str) else item
ItemText(item) == IF item.kind # "str" THEN json_dumps(item) ELSE item.s

\* LPUSH key x1 .. xn / RPUSH key x1 .. xn
RECURSIVE LPushAll(_, _)
LPushAll(list, xs) ==
    IF xs = <<>> THEN list ELSE LPushAll(<<xs[1]>> \o list, Tail(xs))

RPushAll(list, xs) == list \o xs

\* CacheService.add_to_list(key, items, prepend, ttl, max_length): the cache left and the
\* length returned; a push of no item is refused by Redis and the call
\* returns 0.
cache_add_to_list(c, items, prepend, ttl, max_length) ==
    LET its == ItemsOf(items)
        serialized_items == [i \in 1..Len(its) |-> ItemText(its[i])]
        pushed == IF prepend THEN LPushAll(c.list, serialized_items)
                  ELSE RPushAll(c.list, serialized_items)
        result == Len(pushed)
        trimmed == IF max_length # <<>> /\ result > max_length[1]
                   THEN LTrim(pushed, 0, max_length[1] - 1)
                   ELSE pushed
    IN  IF its = <<>>
        THEN [cache |-> c, ret |-> 0]
        ELSE [cache |-> [c EXCEPT !.list = trimmed,
                                  !.ttl["list"] = ExpireIfGiven(@, ttl)],
              ret |-> result]

\* get_list_items(key, start, end)
get_list_items(c, start, end) ==
    LET items == LRange(c.list, start, end)
    IN  [i \in 1..Len(items) |-> loads_or_text(items[i])]

\* One call of set_value.
SetValue(value, ttl) ==
    /\ cache.writes < MaxCacheWrites
    /\ LET r == set_value(cache, value, ttl)
       IN  /\ cache' = [r.cache EXCEPT !.writes = @ + 1, !.given.string = <<value>>]
           /\ cacheLast' = [op |-> "set_value", ret |-> r.ret]
    /\ UNCHANGED <<velVars, boardVars, rlProcs, ackProcs,
                   rlVars, actVars, alertVars, metricVars, trendVars>>

\* One call of get_value.
GetValue ==
    /\ cacheLast' = [op |-> "get_value", result |-> get_value(cache)]
    /\ UNCHANGED <<cache, velVars, boardVars, rlProcs, ackProcs,
                   rlVars, actVars, alertVars, metricVars, trendVars>>

\* One call of set_hash.
SetHash(hash_map, ttl) ==
    /\ cache.writes < MaxCacheWrites
    /\ LET r == set_hash(cache, hash_map, ttl)
       IN  /\ cache' = [r.cache EXCEPT
                          !.writes = @ + 1,
                          !.given.hash = IF r.ret THEN HSet(@, hash_map) ELSE @]
           /\ cacheLast' = [op |-> "set_hash", ret |-> r.ret]
    /\ UNCHANGED <<velVars, boardVars, rlProcs, ackProcs,
                   rlVars, actVars, alertVars, metricVars, trendVars>>

\* One call of get_hash_field.
GetHashField(field) ==
    /\ cacheLast' = [op |-> "get_hash_field", field |-> field,
                     result |-> get_hash_field(cache, field)]
    /\ UNCHANGED <<cache, velVars, boardVars, rlProcs, ackProcs,
                   rlVars, actVars, alertVars, metricVars, trendVars>>

\* One call of get_hash_all.
GetHashAll ==
    /\ cacheLast' = [op |-> "get_hash_all", result |-> get_hash_all(cache)]
    /\ UNCHANGED <<cache, velVars, boardVars, rlProcs, ackProcs,
                   rlVars, actVars, alertVars, metricVars, trendVars>>

\* One call of add_to_list; the history keeps the items handed over, in the
\* order the list has them.
AddToList(items, prepend, ttl, max_length) ==
    /\ cache.writes < MaxCacheWrites
    /\ LET r == cache_add_to_list(cache, items, prepend, ttl, max_length)
           its == ItemsOf(items)
       IN  /\ cache' = [r.cache EXCEPT
                          !.writes = @ + 1,
                          !.given.list = IF prepend THEN LPushAll(@, its)
                                         ELSE RPushAll(@, its)]
           /\ cacheLast' = [op |-> "add_to_list", ret |-> r.ret]
    /\ UNCHANGED <<velVars, boardVars, rlProcs, ackProcs,
                   rlVars, actVars, alertVars, metricVars, trendVars>>

\* One call of get_list_items for the whole list.
GetListItems ==
    /\ cacheLast' = [op |-> "get_list_items", result |-> get_list_items(cache, 0, -1)]
    /\ UNCHANGED <<cache, velVars, boardVars, rlProcs, ackProcs,
                   rlVars, actVars, alertVars, metricVars, trendVars>>

\* The list arguments of add_to_list: one item or two.
ItemLists ==
    {CList(<<v>>) : v \in CacheValues} \cup {CList(<<CInt(1), CStr("hello")>>)}

CacheNext ==
    \/ \E value \in CacheValues : SetValue(value, <<STANDARD>>)
    \/ GetValue
    \/ \E field \in CacheFields, value \in CacheValues :
           SetHash([f \in {field} |-> value], <<STANDARD>>)
    \/ \E field \in CacheFields : GetHashField(field)
    \/ GetHashAll
    \/ \E items \in ItemLists \cup {v \in CacheValues : v.kind # "list"},
          prepend \in BOOLEAN :
           AddToList(items, prepend, <<STANDARD>>, <<>>)
    \/ GetListItems

SpecCache == Init /\ [][CacheNext]_vars

(***************************************************************************)
(* C24: round trip through the cache primitives (checked under SpecCache)  *)
(***************************************************************************)

\* C24: what a read primitive returns is the value that was written, of the
\* same kind: for the string key, for each hash field and the whole hash, and
\* for the items of the list.
C24_RoundTrip ==
    /\ (cacheLast.op = "get_value" /\ cache.given.string # <<>>) =>
           cacheLast.result = cache.given.string[1]
    /\ (cacheLast.op = "get_hash_field" /\ cacheLast.field \in DOMAIN cache.given.hash) =>
           cacheLast.result = cache.given.hash[cacheLast.field]
    /\ cacheLast.op = "get_hash_all" => cacheLast.result = cache.given.hash
    /\ cacheLast.op = "get_list_items" => cacheLast.result = cache.given.list

(***************************************************************************)
(* Concurrent check_rate_limit calls on one key                            *)
(* (services/redis/metrics_service.py): one step per Redis command.        *)
(***************************************************************************)

\* The limits and windows the concurrent callers pass.
ConcLimits == {1, 2}
ConcWindows == {1, 2}

KeyExpiredAlways(ttl) == TRUE

\* if ttl < 0: the key does not exist or has no expiry.
KeyExpired(ttl) == ttl < 0

\* A call starts: get_counter GETs the value.
RLGet(p, limit, window) ==
    /\ rlProcs[p].pc = "idle"
    /\ rlWin.calls < MaxCalls
    /\ rlProcs' = [rlProcs EXCEPT ![p] =
           [pc |-> "ttl", limit |-> limit, window |-> window,
            count |-> IF rlTtl = KEY_ABSENT THEN 0 ELSE rlCount]]
    /\ rlWin' = [rlWin EXCEPT
           !.calls = @ + 1,
           !.limit = IF rlWin.calls = 0 \/ @ = limit THEN limit ELSE 0,
           !.window = IF rlWin.calls = 0 \/ @ = window THEN window ELSE 0]
    /\ UNCHANGED <<rlCount, rlTtl, rlLast, velVars, boardVars, cacheVars, ackProcs,
                   actVars, alertVars, metricVars, trendVars>>

\* redis.ttl(key), the reset of an expired window and the limit test: the
\* call returns (False, count, ttl) or goes on to increment_counter.
RLTtl(p) ==
    /\ rlProcs[p].pc = "ttl"
    /\ LET me == rlProcs[p]
           count == IF KeyExpired(rlTtl) THEN 0 ELSE me.count
           ttl == IF KeyExpired(rlTtl) THEN me.window ELSE rlTtl
       IN  rlProcs' = [rlProcs EXCEPT ![p] =
               IF LimitExceeded(count, me.limit)
               THEN [pc |-> "idle", allowed |-> FALSE, count |-> count, reset |-> ttl]
               ELSE [pc |-> "incrby", limit |-> me.limit, window |-> me.window,
                     count |-> count, ttl |-> ttl]]
    /\ UNCHANGED <<rlVars, velVars, boardVars, cacheVars, ackProcs,
                   actVars, alertVars, metricVars, trendVars>>

\* redis.incrby(counter_key, 1): creates the key, without expiry, if absent.
RLIncrBy(p) ==
    /\ rlProcs[p].pc = "incrby"
    /\ rlCount' = rlCount + 1
    /\ rlTtl' = IF rlTtl = KEY_ABSENT THEN KEY_NO_EXPIRY ELSE rlTtl
    /\ rlProcs' = [rlProcs EXCEPT ![p] =
           [pc |-> "expire", limit |-> rlProcs[p].limit, window |-> rlProcs[p].window,
            count |-> rlCount + 1, ttl |-> rlProcs[p].ttl]]
    /\ UNCHANGED <<rlLast, rlWin, velVars, boardVars, cacheVars, ackProcs,
                   actVars, alertVars, metricVars, trendVars>>

\* redis.expire(counter_key, ttl), and the call returns (True, new_count, ttl).
RLExpire(p) ==
    /\ rlProcs[p].pc = "expire"
    /\ rlTtl' = IF rlTtl = KEY_ABSENT THEN KEY_ABSENT ELSE rlProcs[p].window
    /\ rlProcs' = [rlProcs EXCEPT ![p] =
           [pc |-> "idle", allowed |-> TRUE, count |-> rlProcs[p].count,
            reset |-> rlProcs[p].ttl]]
    /\ UNCHANGED <<rlCount, rlLast, rlWin, velVars, boardVars, cacheVars, ackProcs,
                   actVars, alertVars, metricVars, trendVars>>

RLConcNext ==
    \/ \E p \in RLProcs, limit \in ConcLimits, window \in ConcWindows :
           RLGet(p, limit, window)
    \/ \E p \in RLProcs : RLTtl(p)
    \/ \E p \in RLProcs : RLIncrBy(p)
    \/ \E p \in RLProcs : RLExpire(p)
    \/ RLTick

SpecRLConc == Init /\ [][RLConcNext]_vars

(***************************************************************************)
(* C25: overshoot of the rate limiter (checked under SpecRLConc)           *)
(***************************************************************************)

\* C25: while every call since the key was last absent uses the same limit,
\* the counter stored never exceeds that limit by more than the number of
\* concurrent callers.
C25_BoundedOvershoot ==
    rlWin.limit # 0 => rlCount <= rlWin.limit + Cardinality(RLProcs)

\* Two callers of limit 2 that both read the count 1 were both allowed.
C25_Witness ==
    /\ rlWin.limit = 2
    /\ rlWin.calls = 3
    /\ rlCount = 3
    /\ \A p \in RLProcs : rlProcs[p].pc = "idle" /\ rlProcs[p] # AtRest /\ rlProcs[p].allowed
    /\ {rlProcs[p].count : p \in RLProcs} = {2, 3}

(***************************************************************************)
(* C26, C27: denied checks and the end of throttling (checked under SpecRL)*)
(***************************************************************************)

\* C26: a check that returns allowed = FALSE writes nothing: the counter and
\* the TTL of the key are after the call what they were before it.
C26_DenyNoWrite ==
    (rlLast.op = "check" /\ ~rlLast.allowed) =>
        /\ rlCount = rlLast.preCount
        /\ rlTtl = rlLast.preTtl

\* A check was denied on a key that holds a count and has time left.
C26_Witness ==
    /\ rlLast.op = "check"
    /\ ~rlLast.allowed
    /\ rlLast.preCount = 2
    /\ rlLast.preTtl = 1
    /\ rlCount = 2

\* C27: throttling ends.  The key lives exactly the window of the last
\* allowed check after that check, whatever checks are denied meanwhile: it
\* has window minus elapsed seconds left before, and is gone after.  A check
\* of an absent key returns allowed = TRUE, currentCount = 1 and
\* resetSeconds = its window.  (Checks during which no command fails.)
C27_ThrottlingEnds ==
    /\ rlWin.idle >= 0 =>
           IF rlWin.idle >= rlWin.span
           THEN rlTtl = KEY_ABSENT
           ELSE rlTtl = rlWin.span - rlWin.idle
    /\ (rlLast.op = "check" /\ rlLast.failed = {} /\ rlLast.preTtl = KEY_ABSENT) =>
           /\ rlLast.allowed
           /\ rlLast.count = 1
           /\ rlLast.reset = rlLast.window
           /\ rlTtl = rlLast.window

\* A caller was denied after the last allowed check of window 2, and the key
\* is gone two seconds after that allowed check.
C27_Witness ==
    /\ rlWin.idle = 2
    /\ rlWin.span = 2
    /\ rlWin.denied
    /\ rlTtl = KEY_ABSENT

(***************************************************************************)
(* C28: stream bound under concurrent writers (checked under SpecConcAdd)  *)
(***************************************************************************)

\* No writer is inside an add.
AddsDone == \A p \in Procs : procs[p].pc = "idle"

\* C28: with N concurrent writers the stream is never longer than
\* floor(MAX_STREAM_LENGTH x 1.2) + N, and not longer than
\* floor(MAX_STREAM_LENGTH x 1.2) once every add has completed.
C28_ConcurrentBound ==
    LET length == Len(streams[ACTIVITY_ENTITY("e1")])
    IN  /\ length <= SoftBound + Cardinality(Procs)
        /\ AddsDone => length <= SoftBound

\* Both writers have pushed onto a full stream before either read its length.
C28_Witness ==
    /\ Len(streams[ACTIVITY_ENTITY("e1")]) = SoftBound + Cardinality(Procs)
    /\ \A p \in Procs : procs[p].pc = "add_llen"

(***************************************************************************)
(* C29: trimming drops only the oldest (checked under SpecStream)          *)
(***************************************************************************)

\* The first n elements of a sequence.
Newest(q, n) == SubSeq(q, 1, Min(n, Len(q)))

\* C29: a stream is a prefix of the records pushed onto it, newest first, each
\* as it was pushed; an add that trims leaves exactly the MAX_STREAM_LENGTH
\* most recent of them, in order.
C29_DropsOnlyOldest ==
    /\ \A k \in StreamKeys :
           streams[k] = Newest(actHist.log[k], Len(streams[k]))
    /\ (/\ actLast.op = "add"
        /\ actLast.faults["entity"] = "none"
        /\ OverThreshold(Len(actLast.pre[E1]) + 1))
       => streams[E1] = Newest(actHist.log[E1], MAX_STREAM_LENGTH)

\* An add has trimmed the stream: records were pushed that are no longer in it.
C29_Witness ==
    /\ actLast.op = "add"
    /\ actLast.faults["entity"] = "none"
    /\ OverThreshold(Len(actLast.pre[E1]) + 1)
    /\ Len(streams[E1]) = MAX_STREAM_LENGTH
    /\ Len(actHist.log[E1]) > MAX_STREAM_LENGTH

(***************************************************************************)
(* Concurrent acknowledge_alert calls (services/redis_service.py): one     *)
(* step per Redis command.                                                 *)
(***************************************************************************)

\* The alert ids asked for: the clock readings an alert can be raised at.
AckIds == {h * 3600 : h \in 0..MaxHours}

\* sorted_set_rev_range(key, 0, -1) and the search of its answer: the call
\* returns False when no member has the id, else goes on to ZREM of the first
\* member that has it.  did records whether the call's ZREM removed a member.
AckRange(p, alert_id) ==
    /\ ackProcs[p].pc = "idle"
    /\ LET alerts_json == ZRevRange(alerts, 0, 0 - 1)
           hits == {i \in 1..Len(alerts_json) : alerts_json[i].id = alert_id}
       IN  ackProcs' = [ackProcs EXCEPT ![p] =
               IF hits = {}
               THEN [pc |-> "idle", alert_id |-> alert_id, removed |-> FALSE,
                     did |-> FALSE]
               ELSE [pc |-> "zrem", alert_id |-> alert_id,
                     alert_json |-> alerts_json[CHOOSE i \in hits : \A j \in hits : i <= j]]]
    /\ UNCHANGED <<alertVars, velVars, boardVars, cacheVars, rlProcs,
                   rlVars, actVars, metricVars, trendVars>>

\* redis.zrem(key, alert_json); removed = True; break; return removed.
AckZRem(p) ==
    /\ ackProcs[p].pc = "zrem"
    /\ alerts' = {e \in alerts : e.member # ackProcs[p].alert_json}
    /\ ackProcs' = [ackProcs EXCEPT ![p] =
           [pc |-> "idle", alert_id |-> ackProcs[p].alert_id, removed |-> TRUE,
            did |-> \E e \in alerts : e.member = ackProcs[p].alert_json]]
    /\ UNCHANGED <<now, alSeq, alLast, velVars, boardVars, cacheVars, rlProcs,
                   rlVars, actVars, metricVars, trendVars>>

\* Alerts are raised while the clock runs and acknowledged by concurrent callers.
AckConcNext ==
    \/ \E priority \in {"LOW", "HIGH"} : CreateEntityAlert(priority, FALSE, "none")
    \/ AlertTick(3600)
    \/ \E p \in AckProcs, alert_id \in AckIds : AckRange(p, alert_id)
    \/ \E p \in AckProcs : AckZRem(p)

SpecAckConc == Init /\ [][AckConcNext]_vars

(***************************************************************************)
(* C30: acknowledge under interleaving (checked under SpecAckConc)         *)
(***************************************************************************)

\* C30: a completed acknowledge call returned true only if its own ZREM
\* removed the alert, so of the calls racing for one alert at most one
\* returns true.
C30_AckExactlyOnce ==
    \A p \in AckProcs :
        (ackProcs[p].pc = "idle" /\ ackProcs[p] # AtRest) =>
            (ackProcs[p].removed => ackProcs[p].did)

====
